---- MODULE Spec2Model ----
(***************************************************************************)
(* A model of vee-eye (src/vi.c): the doubly linked line list, the cursor  *)
(* and viewport, the command interpreter and the insert engine, at the     *)
(* granularity of one keystroke read from the terminal.                    *)
(*                                                                         *)
(* Bytes are their integer values.  A line's text buffer is the sequence   *)
(* of its alloc_size bytes; C index i is element i + 1.  Pointers to       *)
(* struct line are node numbers, 0 is NULL.                                *)
(***************************************************************************)
EXTENDS Integers, Sequences, FiniteSets, TLC

VARIABLES
    lines,          \* the heap of struct line: node number -> record
    line_head,      \* static struct line *line_head
    line_count,     \* static int line_count
    cur_line,       \* 1-based ordinal of the current line
    cur_line_s,     \* cached pointer to the current line
    crsr_x,         \* visible column
    crsr_y,         \* screen row of the cursor
    line_shift,     \* horizontal shift
    vi_mode,        \* MODE_COMMAND / MODE_INSERT
    term_rows,      \* usable rows
    term_cols,      \* columns
    custom_status,  \* pending one-shot status message (<<>> is "")
    shown,          \* what the last update_status wrote on the status line
    fault,          \* memory fault of the last handler ("" when none)
    halt,           \* "" while running, else how the process ended
    pc,             \* which read() the editor is blocked in
    command,        \* count digits typed so far (do_cmd's command[])
    num_times,      \* count of the command awaiting its second key
    infile,         \* the bytes of the file named on invocation
    outfile,        \* the bytes save_file wrote last
    outname,        \* the name of the file save_file opened last
    curfile,        \* static char curfile[]: the current file's name
    cmdline,        \* the bytes get_command_string has taken so far
    tty,            \* the terminal settings: "cooked", "raw", "restored"
    frees,          \* what destroy_buffer passed to free()
    held,           \* the bytes main's c and edit_mode's c hold
    key             \* the last byte read

vars == <<lines, line_head, line_count, cur_line, cur_line_s, crsr_x, crsr_y,
          line_shift, vi_mode, term_rows, term_cols, custom_status, shown,
          fault, halt, pc, command, num_times, infile, outfile, outname,
          curfile, cmdline, tty, frees, held, key>>

----------------------------------------------------------------------------
(* Bounds of the model *)

\* o and Enter are taken only while line_count is below this
MaxLines == 3
\* a key is followed only while the lines hold at most this many bytes together
MaxChars == 3
\* the count digits offered are 2..MaxCount
MaxCount == 2
\* the terminal has 1..MaxRows usable rows and 1..MaxCols columns
MaxRows == 2
MaxCols == 2
\* at most this many count digits are typed before a command letter
MaxDigits == 1

----------------------------------------------------------------------------
(* Program constants *)

MODE_COMMAND == 0
MODE_INSERT == 1
CHUNK_SIZE == 4096
ALLOC_CHUNK == 32

NUL == 0
BS == 8
LF == 10
CR == 13
ESC == 27
DEL == 127

K_0 == 48
K_9 == 57
K_X == 88
K_a == 97
K_d == 100
K_h == 104
K_i == 105
K_j == 106
K_k == 107
K_l == 108
K_o == 111
K_x == 120
K_bang == 33
K_colon == 58
K_q == 113
K_w == 119
SPACE == 32
MAX_CMDSIZE == 128

Min(S) == CHOOSE x \in S : \A y \in S : x <= y
Max(S) == CHOOSE x \in S : \A y \in S : x >= y

----------------------------------------------------------------------------
(* C strings in a buffer t of Len(t) bytes.  g is the byte an out-of-bounds *)
(* read returns.                                                            *)

Rd(t, i, g) == IF i < 0 \/ i >= Len(t) THEN g ELSE t[i + 1]

\* strlen(t + p); -1 when the scan runs off the end of the buffer over
\* non-zero garbage
RECURSIVE scan(_, _, _)
scan(t, i, g) == IF Rd(t, i, g) = NUL THEN 0
                 ELSE IF i >= Len(t) THEN -2 * Len(t) - 2
                 ELSE 1 + scan(t, i + 1, g)

strlen(t, p, g) == Max({-1, scan(t, p, g)})

\* memmove(t + dst, t + src, n), the part that lands inside the buffer
memmove(t, dst, src, n, g) ==
    [i \in 1..Len(t) |->
        IF dst <= i - 1 /\ i - 1 < dst + n
        THEN Rd(t, (i - 1) - dst + src, g) ELSE t[i]]

\* *(t + i) = c, when it lands inside the buffer
poke(t, i, c) == IF 0 <= i /\ i < Len(t) THEN [t EXCEPT ![i + 1] = c] ELSE t

\* does a write of n bytes at t + dst leave the buffer?
Outside(t, dst, n) == n > 0 /\ (dst < 0 \/ dst + n > Len(t))

\* calloc(1, n)
Zeros(n) == [i \in 1..n |-> NUL]

\* a buffer of n zero bytes with the string str copied to its start
StrBuf(str, n) == [i \in 1..n |-> IF i <= Len(str) THEN str[i] ELSE NUL]

\* the bytes [0, len) of a line, the ones save_file writes and redraw shows
Bytes(l) == [i \in 1..(IF l.len < 0 THEN 0 ELSE l.len) |-> Rd(l.text, i - 1, NUL)]

----------------------------------------------------------------------------
(* The heap of line nodes *)

Nodes == 1..(MaxLines + 1)

FreeNode == [live |-> FALSE, prev |-> 0, next |-> 0, text |-> <<>>,
             len |-> 0, alloc_size |-> 0]

\* malloc(sizeof(struct line)): some node that is not allocated
malloc(h) == Min({n \in Nodes : ~h[n].live})

RECURSIVE walk(_, _, _, _)
walk(h, num, line, i) ==
    IF line = 0 THEN 0
    ELSE IF i = num THEN line
    ELSE IF h[line].next = 0 THEN 0
    ELSE walk(h, num, h[line].next, i + 1)

walk_to_line(h, num, line) ==
    IF num = 0 \/ line = 0 THEN 0 ELSE walk(h, num, line, 1)

\* the nodes reached from head by next links, in order
RECURSIVE Chain(_, _, _)
Chain(h, line, fuel) ==
    IF line = 0 \/ fuel = 0 THEN <<>>
    ELSE <<line>> \o Chain(h, h[line].next, fuel - 1)

Reach(h, head) == Chain(h, head, Cardinality(Nodes) + 1)

----------------------------------------------------------------------------
(* The program state as a record, so that the C functions compose.  ret is  *)
(* the value the last function returned, hd the value alloc_new_line left   *)
(* in *buf_head.                                                            *)

St == [lines |-> lines, line_head |-> line_head, line_count |-> line_count,
       cur_line |-> cur_line, cur_line_s |-> cur_line_s, crsr_x |-> crsr_x,
       crsr_y |-> crsr_y, line_shift |-> line_shift, vi_mode |-> vi_mode,
       term_rows |-> term_rows, term_cols |-> term_cols,
       custom_status |-> custom_status, shown |-> shown, fault |-> "",
       halt |-> halt, outfile |-> outfile, outname |-> outname,
       curfile |-> curfile, tty |-> tty, frees |-> frees, ret |-> 0, hd |-> 0]

Worse(a, b) == IF a = "oob_write" \/ b = "oob_write" THEN "oob_write"
               ELSE IF a = "" THEN b ELSE a

Flag(s, f) == [s EXCEPT !.fault = Worse(s.fault, f)]

\* destroy_buffer has called free() on no node
NoFrees == [nodes |-> 0, again |-> 0]

\* destroy_buffer without "Free the final line": the last node is leaked
destroy_buffer_leaks_last(s) ==
    LET account(calls) ==
            LET times(n) == Cardinality({i \in 1..Len(calls) : calls[i] = n})
            IN  [s EXCEPT !.line_head = 0,
                   !.lines = [n \in Nodes |-> IF times(n) > 0 THEN FreeNode ELSE s.lines[n]],
                   !.frees = [nodes |-> Cardinality({n \in Nodes : times(n) > 0}),
                              again |-> Cardinality({n \in Nodes :
                                           \/ times(n) > 1
                                           \/ times(n) = 1 /\ ~s.lines[n].live})]]
        loop(ch) ==
            account(SelectSeq([i \in 1..Len(ch) |-> s.lines[ch[i]].prev], LAMBDA q : q # 0))
    IN  loop(Reach(s.lines, s.line_head))

\* destroy_buffer(&line_head): the loop frees each line's text and the node
\* its prev points to, and the last line is freed after the loop.  frees
\* counts the nodes given to free(), and those given to it more than once or
\* when they were not allocated.
destroy_buffer(s) ==
    LET \* calls[i] is the node of the i-th free() of a struct line
        account(calls) ==
            LET times(n) == Cardinality({i \in 1..Len(calls) : calls[i] = n})
            IN  [s EXCEPT
                   !.line_head = 0,
                   !.lines = [n \in Nodes |->
                                IF times(n) > 0 THEN FreeNode ELSE s.lines[n]],
                   !.frees = [nodes |-> Cardinality({n \in Nodes : times(n) > 0}),
                              again |-> Cardinality({n \in Nodes :
                                           \/ times(n) > 1
                                           \/ times(n) = 1 /\ ~s.lines[n].live})]]
        loop(ch) ==
            account(SelectSeq([i \in 1..Len(ch) |-> s.lines[ch[i]].prev],
                              LAMBDA q : q # 0)
                    \o (IF ch = <<>> THEN <<>> ELSE <<ch[Len(ch)]>>))
    IN  loop(Reach(s.lines, s.line_head))

\* term_restore
term_restore(s) == [s EXCEPT !.tty = IF @ = "raw" THEN "restored" ELSE @]

clean_abort(s) == [destroy_buffer(term_restore(s)) EXCEPT !.halt = "abort"]

\* does redraw_line's write() read outside the line's buffer?
OobRead(s, n) ==
    LET l   == s.lines[n]
        ln0 == l.len - s.line_shift
        ln  == IF ln0 > s.term_cols THEN s.term_cols ELSE ln0
    IN  ln > 0 /\ (s.line_shift < 0 \/ s.line_shift + ln > l.alloc_size)

\* the bytes redraw_line writes for a line: at most term_cols of them, from
\* text + line_shift
written(s, line) ==
    LET l   == s.lines[line]
        ln0 == l.len - s.line_shift
        ln  == IF ln0 > s.term_cols THEN s.term_cols ELSE ln0
    IN  [i \in 1..ln |-> Rd(l.text, s.line_shift + i - 1, NUL)]

\* redraw_line without its crsr_restore(): the cursor stays on the row drawn
redraw_line_unrestored(s, line, y) ==
    IF s.halt # "" THEN s
    ELSE IF line = 0 THEN clean_abort(s)
    ELSE [s EXCEPT !.crsr_y = y]

redraw_line(s, line, y) ==
    IF s.halt # "" THEN s
    ELSE IF line = 0 THEN clean_abort(s)
    ELSE IF OobRead(s, line) THEN Flag(s, "oob_read")
    ELSE s

line_shift_reduce(s, count) ==
    IF s.halt # "" THEN s
    ELSE redraw_line(
            [s EXCEPT !.line_shift =
                IF count = 0 \/ count >= s.line_shift THEN 0
                ELSE s.line_shift - count],
            s.cur_line_s, s.crsr_y)

line_shift_increase(s, count) ==
    IF s.halt # "" THEN s
    ELSE redraw_line([s EXCEPT !.line_shift = s.line_shift + count],
                     s.cur_line_s, s.crsr_y)

\* char num[4], the buffer the percentage is formatted into
NUM_SIZE == 4

\* the line at the top of the screen, as update_status computes it
TopLine(s) == 1 + (s.cur_line - s.crsr_y)

\* update_status writes a number, neither " Top" nor " Bot"
Numeric(s) ==
    /\ TopLine(s) > 1
    /\ ~((s.cur_line + s.term_rows) >= s.line_count)

\* the number it writes
Percent(s) == (s.line_count * 100) \div TopLine(s)

\* the bytes sprintf(num, "%d%%", v) writes for v >= 0: the digits, the
\* percent sign and the terminator
RECURSIVE DigitsOf(_)
DigitsOf(v) == IF v < 10 THEN 1 ELSE 1 + DigitsOf(v \div 10)

NumBytes(v) == DigitsOf(v) + 2

update_status(s) ==
    IF s.halt # "" THEN s
    ELSE LET msg == IF s.custom_status = <<>>
                    THEN (IF s.vi_mode = MODE_COMMAND THEN <<>>
                          ELSE <<"-- INSERT --">>)
                    ELSE s.custom_status
             top_line == 1 + (s.cur_line - s.crsr_y)
             s1 == [s EXCEPT !.shown = msg, !.custom_status = <<>>]
         IN  IF top_line < 1 THEN clean_abort(s1)
             ELSE IF Numeric(s) /\ NumBytes(Percent(s)) > NUM_SIZE
                  THEN Flag(s1, "oob_write")
             ELSE s1

redraw_screen(s, row_start, row_end) ==
    IF s.halt # "" THEN s
    ELSE IF s.cur_line < s.crsr_y THEN clean_abort(s)
    ELSE IF row_start > s.term_rows THEN clean_abort(s)
    ELSE LET rs == IF row_start <= 0 THEN 1 ELSE row_start
             re == IF row_end <= 0 THEN s.term_rows ELSE row_end
             start_y == s.cur_line - s.crsr_y + rs
             \* the rows drawn from the chain ch that starts at the top line
             rows(ch) ==
                 IF \E i \in 1..Min({Len(ch), re - rs + 1}) : OobRead(s, ch[i])
                 THEN Flag(s, "oob_read") ELSE s
             from(line) == IF line = 0 THEN clean_abort(s)
                           ELSE rows(Reach(s.lines, line))
         IN  from(walk_to_line(s.lines, start_y, s.line_head))

\* the clamps of read_term_dimensions on the size the ioctl reported
read_term_dimensions(s, ws_row, ws_col) ==
    [s EXCEPT !.term_rows = IF ws_row - 1 < 1 THEN 1 ELSE ws_row - 1,
              !.term_cols = IF ws_col < 1 THEN 1 ELSE ws_col]

\* the handler of SIGWINCH, the terminal now being ws_row by ws_col
sigwinch_handler(s, ws_row, ws_col) ==
    LET moved(s1) ==
            [s1 EXCEPT
               !.crsr_x = IF @ >= s1.term_cols THEN s1.term_cols - 1 ELSE @,
               !.crsr_y = IF @ >= s1.term_rows THEN s1.term_rows - 1 ELSE @]
        told(s2) ==
            IF s2.halt # "" THEN s2
            ELSE [s2 EXCEPT !.custom_status =
                     <<"Terminal resized to %dx%d", s2.term_cols, s2.term_rows>>]
    IN  told(redraw_screen(moved(read_term_dimensions(s, ws_row, ws_col)), 0, 0))

\* what redraw_screen writes, row by row: the lines' visible parts, then tildes
TILDE == 126

painted(s, row_start, row_end) ==
    LET rs == IF row_start <= 0 THEN 1 ELSE row_start
        re == IF row_end <= 0 THEN s.term_rows ELSE row_end
        rows(ch) == [i \in 1..(re - rs + 1) |->
                        IF i <= Len(ch) THEN written(s, ch[i]) ELSE <<TILDE>>]
    IN  rows(Reach(s.lines, walk_to_line(s.lines, s.cur_line - s.crsr_y + rs,
                                         s.line_head)))

\* text is NullText for a NULL new_text, else the string to copy
NullText == <<-1>>

alloc_new_line(s, start, new_text, head) ==
    IF s.halt # "" THEN s
    ELSE IF start > s.line_count THEN [s EXCEPT !.ret = 0, !.hd = head]
    ELSE LET h         == s.lines
             new_len   == IF new_text = NullText THEN 0 ELSE Len(new_text)
             new_ll    == IF new_text = NullText THEN ALLOC_CHUNK
                          ELSE (((new_len + 1) \div ALLOC_CHUNK) + 1) * ALLOC_CHUNK
             \* the new node linked in between prev_line and nxt
             link(prev_line, nxt, new_line) ==
                 [s EXCEPT
                    !.lines = [n \in Nodes |->
                      IF n = new_line
                      THEN [live |-> TRUE, prev |-> prev_line, next |-> nxt,
                            text |-> IF new_text = NullText THEN Zeros(new_ll)
                                     ELSE StrBuf(new_text, new_ll),
                            len |-> new_len, alloc_size |-> new_ll]
                      ELSE IF prev_line # 0 /\ n = prev_line
                           THEN [h[n] EXCEPT !.next = new_line]
                      ELSE IF nxt # 0 /\ n = nxt
                           THEN [h[n] EXCEPT !.prev = new_line]
                      ELSE h[n]],
                    !.line_count = s.line_count + 1,
                    !.ret = new_line,
                    !.hd = IF prev_line = 0 THEN new_line ELSE head]
             after(prev_line) ==
                 link(prev_line, IF prev_line = 0 THEN 0 ELSE h[prev_line].next,
                      malloc(h))
         IN  after(IF start > 0 THEN walk_to_line(h, start, head) ELSE head)

destroy_line(s, target_line) ==
    IF s.halt # "" THEN s
    ELSE IF target_line = 0 THEN [s EXCEPT !.ret = -1]
    ELSE LET h == s.lines
             t == h[target_line]
         IN  IF t.prev # 0
             THEN LET s0 == s
                      h1 == [n \in Nodes |->
                               IF n = target_line THEN FreeNode
                               ELSE IF n = t.prev THEN [h[n] EXCEPT !.next = t.next]
                               ELSE IF t.next # 0 /\ n = t.next
                                    THEN [h[n] EXCEPT !.prev = t.prev]
                               ELSE h[n]]
                  IN  IF s0.halt # "" THEN s0
                      ELSE [redraw_screen(
                              [s0 EXCEPT !.lines = h1,
                                         !.line_count = s.line_count - 1], 0, 0)
                            EXCEPT !.ret = 0]
             ELSE IF s.line_count > 1
             THEN IF t.next = 0 THEN clean_abort(s)
                  ELSE LET s0 == s
                           h1 == [n \in Nodes |->
                                    IF n = target_line THEN FreeNode
                                    ELSE IF n = t.next THEN [h[n] EXCEPT !.prev = 0]
                                    ELSE h[n]]
                       IN  IF s0.halt # "" THEN s0
                           ELSE [redraw_screen(
                                   [s0 EXCEPT !.lines = h1,
                                        !.line_head = IF target_line = s.line_head
                                                      THEN t.next ELSE s.line_head,
                                        !.line_count = s.line_count - 1], 0, 0)
                                 EXCEPT !.ret = 0]
             ELSE \* line 1 with no more lines
                  IF Rd(t.text, 0, NUL) = NUL
                  THEN [s EXCEPT !.lines[target_line].len = 0, !.ret = 1]
                  ELSE [redraw_screen(
                          [s EXCEPT !.lines[target_line].len = 0,
                                    !.lines[target_line].text = poke(t.text, 0, NUL)],
                          0, 0)
                        EXCEPT !.ret = 0]

----------------------------------------------------------------------------
(* Character deletion and cursor movement *)

CurLine(s) == s.lines[s.cur_line_s]

\* g: the byte an out-of-bounds read returns
do_del_under_crsr(s, left, g) ==
    IF s.halt # "" THEN s
    ELSE IF CurLine(s).len = 0 THEN [s EXCEPT !.ret = 1]
    ELSE IF s.crsr_x > (CurLine(s).len + s.line_shift) /\ left = 0
         THEN [s EXCEPT !.ret = 1]
    ELSE LET t  == CurLine(s).text
             p  == s.crsr_x + s.line_shift
             \* memmove(p - 1, p, strlen(p) + 1); cur_line_s->len--
             close(sl) ==
                 [s EXCEPT !.lines[s.cur_line_s].text =
                               memmove(t, p - 1, p, sl + 1, g),
                           !.lines[s.cur_line_s].len = CurLine(s).len - 1,
                           !.fault = IF Outside(t, p - 1, sl + 1) THEN "oob_write"
                                     ELSE IF p < 0 \/ p + sl >= Len(t)
                                          THEN Worse(s.fault, "oob_read")
                                     ELSE s.fault]
             \* if (crsr_x > (len - line_shift + (vi_mode ? 1 : 0))) crsr_x--
             back(s1) ==
                 IF s1.crsr_x > (CurLine(s1).len - s1.line_shift)
                                + (IF s1.vi_mode > 0 THEN 1 ELSE 0)
                 THEN [s1 EXCEPT !.crsr_x = s1.crsr_x - 1] ELSE s1
             \* if (crsr_x < 1) { if (line_shift > 0) reduce; crsr_x = 1; }
             floor(s2) ==
                 IF s2.crsr_x < 1
                 THEN [(IF s2.line_shift > 0 THEN line_shift_reduce(s2, 1) ELSE s2)
                       EXCEPT !.crsr_x = 1]
                 ELSE s2
             redraw(s3) ==
                 [redraw_line(s3, s3.cur_line_s, s3.crsr_y) EXCEPT !.ret = 0]
             del(sl) == IF sl < 0 THEN [s EXCEPT !.halt = "ub"]
                        ELSE redraw(floor(back(close(sl))))
         IN  del(strlen(t, p, g))

do_cursor_left(s) ==
    IF s.halt # "" THEN s
    ELSE IF s.crsr_x = 1
         THEN IF s.line_shift > 0
              THEN LET redraw(s1) == redraw_line(s1, s1.cur_line_s, s1.crsr_y)
                   IN  redraw(line_shift_reduce(s, 1))
              ELSE s
    ELSE [s EXCEPT !.crsr_x = s.crsr_x - 1]

oh_dear_god_no(s, string) ==
    update_status([s EXCEPT !.custom_status = <<"THIS SHOULDN'T HAPPEN: ", string>>])

do_cursor_right(s) ==
    IF s.halt # "" THEN s
    ELSE IF s.crsr_x > CurLine(s).len THEN s
    ELSE IF s.crsr_x = s.term_cols
         THEN IF (CurLine(s).len - s.line_shift) > s.term_cols
              THEN LET redraw(s1) == redraw_line(s1, s1.cur_line_s, s1.crsr_y)
                   IN  redraw(line_shift_increase(s, 1))
              ELSE oh_dear_god_no(s, "cmd: l: term_cols check")
    ELSE IF (s.crsr_x < (CurLine(s).len - s.line_shift))
            \/ (s.vi_mode > 0 /\ s.crsr_x = (CurLine(s).len - s.line_shift))
         THEN [s EXCEPT !.crsr_x = s.crsr_x + 1]
    ELSE s

\* the same without putting line_shift back
RedrawLosingShift(s) == redraw_line([s EXCEPT !.line_shift = 0], s.cur_line_s, s.crsr_y)

\* redraw_line(cur_line_s, crsr_y) with line_shift temporarily 0
RedrawUnshifted(s) ==
    [redraw_line([s EXCEPT !.line_shift = 0], s.cur_line_s, s.crsr_y)
     EXCEPT !.line_shift = s.line_shift]

\* do_cursor_up that steps the ordinal and forgets the cached pointer
do_cursor_up_ordinal_only(s) ==
    IF s.halt # "" THEN s
    ELSE LET redraw(s3) == redraw_line([s3 EXCEPT !.line_shift = 0],
                                       s3.cur_line_s, s3.crsr_y)
             row(s2) == IF s2.crsr_y > 1
                        THEN [s2 EXCEPT !.crsr_y = s2.crsr_y - 1] ELSE s2
             up(s1) ==
                 IF s1.halt # "" THEN s1
                 ELSE IF s1.cur_line = 1 THEN s1
                 ELSE IF CurLine(s1).prev = 0 THEN s1
                 ELSE redraw(row([s1 EXCEPT !.cur_line = s1.cur_line - 1]))
         IN  up(RedrawUnshifted(s))

do_cursor_up(s) ==
    IF s.halt # "" THEN s
    ELSE LET \* line_shift = 0; redraw_line(cur_line_s, crsr_y)
             redraw(s4) == redraw_line([s4 EXCEPT !.line_shift = 0],
                                       s4.cur_line_s, s4.crsr_y)
             \* if (crsr_x > cur_line_s->len) crsr_x = cur_line_s->len
             clamp(s3) == IF s3.crsr_x > CurLine(s3).len
                          THEN [s3 EXCEPT !.crsr_x = CurLine(s3).len] ELSE s3
             \* if (crsr_y > 1) crsr_y--
             row(s2) == IF s2.crsr_y > 1
                        THEN [s2 EXCEPT !.crsr_y = s2.crsr_y - 1] ELSE s2
             up(s1) ==
                 IF s1.halt # "" THEN s1
                 ELSE IF s1.cur_line = 1 THEN s1
                 ELSE IF CurLine(s1).prev = 0 THEN s1
                 ELSE redraw(clamp(row([s1 EXCEPT !.cur_line_s = CurLine(s1).prev,
                                                  !.cur_line = s1.cur_line - 1])))
         IN  up(RedrawUnshifted(s))

do_cursor_down(s) ==
    IF s.halt # "" THEN s
    ELSE LET redraw(s4) == redraw_line(s4, s4.cur_line_s, s4.crsr_y)
             \* the cursor is beyond the end of the line it arrived on
             clamp(s3) ==
                 LET len == CurLine(s3).len
                     sh  == IF len <= s3.line_shift THEN len - 1
                            ELSE s3.line_shift
                     x0  == len - sh
                 IN  IF (s3.crsr_x + s3.line_shift) > len
                     THEN redraw([s3 EXCEPT !.line_shift = sh,
                                            !.crsr_x = IF x0 = 0 THEN 1 ELSE x0])
                     ELSE s3
             \* if (crsr_y < term_rows) crsr_y++; else redraw_line(...)
             row(s2) == IF s2.crsr_y < s2.term_rows
                        THEN [s2 EXCEPT !.crsr_y = s2.crsr_y + 1]
                        ELSE redraw_line(s2, s2.cur_line_s, s2.crsr_y)
             down(s1) ==
                 IF s1.halt # "" THEN s1
                 ELSE IF s1.cur_line = s1.line_count THEN s1
                 ELSE IF CurLine(s1).next = 0 THEN s1
                 ELSE clamp(row([s1 EXCEPT !.cur_line_s = CurLine(s1).next,
                                           !.cur_line = s1.cur_line + 1]))
         IN  down(RedrawUnshifted(s))

\* go_to_start_of_next_line that always moves the screen row down
go_to_next_row(s) ==
    update_status([do_cursor_down(s) EXCEPT !.line_shift = 0, !.crsr_x = 1,
                                            !.crsr_y = s.crsr_y + 1])

go_to_start_of_next_line(s) ==
    update_status([do_cursor_down(s) EXCEPT !.line_shift = 0, !.crsr_x = 1])

----------------------------------------------------------------------------
(* The insert engine *)

\* g: the byte an out-of-bounds or uninitialised read returns
insert_char(s, c, g) ==
    IF s.halt # "" THEN s
    ELSE IF s.vi_mode # MODE_INSERT THEN s
    ELSE LET cl   == CurLine(s)
             p    == s.crsr_x + s.line_shift - 1
             \* memmove(p + 1, p, strlen(p) + 1); *p = c, in the buffer t
             open(t, sl) ==
                 [s EXCEPT !.lines[s.cur_line_s].text =
                               poke(memmove(t, p + 1, p, sl + 1, g), p, c),
                           !.lines[s.cur_line_s].alloc_size = Len(t),
                           !.fault = IF Outside(t, p + 1, sl + 1) \/ Outside(t, p, 1)
                                     THEN "oob_write" ELSE s.fault]
             \* if (crsr_x > term_cols) line_shift_increase(1); else crsr_x++
             right(s1) == IF s1.crsr_x > s1.term_cols THEN line_shift_increase(s1, 1)
                          ELSE [s1 EXCEPT !.crsr_x = s1.crsr_x + 1]
             count(s2) == [s2 EXCEPT !.lines[s.cur_line_s].len = cl.len + 1]
             ins(t, sl) == IF sl < 0 THEN [s EXCEPT !.halt = "ub"]
                           ELSE count(right(open(t, sl)))
             into(t) == ins(t, strlen(t, p, g))
         IN  \* realloc when alloc_size == len
             into(IF cl.alloc_size = cl.len
                  THEN [i \in 1..(2 * cl.len) |->
                          IF i <= Len(cl.text) THEN cl.text[i] ELSE g]
                  ELSE cl.text)

oom(s) == clean_abort(update_status([s EXCEPT !.custom_status = <<"out of memory">>]))

\* alloc_new_line when an allocation fails: malloc of the node (point "node")
\* or calloc of its text (point "text"), where the node is already linked in
\* behind prev_line and line_count not yet counted up
alloc_new_line_oom(s, start, point) ==
    IF s.halt # "" THEN s
    ELSE IF start > s.line_count THEN oom(s)
    ELSE IF point = "node" THEN oom(s)
    ELSE LET h == s.lines
             link(prev_line, nxt, new_line) ==
                 [s EXCEPT
                    !.lines = [n \in Nodes |->
                      IF n = new_line
                      THEN [live |-> TRUE, prev |-> prev_line, next |-> nxt,
                            text |-> <<>>, len |-> 0, alloc_size |-> 0]
                      ELSE IF prev_line # 0 /\ n = prev_line
                           THEN [h[n] EXCEPT !.next = new_line]
                      ELSE IF nxt # 0 /\ n = nxt
                           THEN [h[n] EXCEPT !.prev = new_line]
                      ELSE h[n]],
                    !.line_head = IF prev_line = 0 THEN new_line ELSE s.line_head]
             after(prev_line) ==
                 link(prev_line, IF prev_line = 0 THEN 0 ELSE h[prev_line].next,
                      malloc(h))
         IN  oom(after(IF start > 0 THEN walk_to_line(h, start, s.line_head)
                       ELSE s.line_head))

\* the newline case that copies the tail and leaves the old line whole
edit_newline_uncut(s, g) ==
    LET p  == s.line_shift + s.crsr_x - 1
        redraw(s4) == redraw_screen(s4, s4.crsr_y, 0)
        split(s1) ==
            IF s1.ret = 0 THEN oom(s1)
            ELSE redraw(go_to_start_of_next_line([s1 EXCEPT !.line_head = s1.hd]))
        nl(sl) ==
            IF sl < 0 THEN [s EXCEPT !.halt = "ub"]
            ELSE split(alloc_new_line(s, s.cur_line,
                          [i \in 1..sl |-> Rd(CurLine(s).text, p + i - 1, g)],
                          s.line_head))
    IN  nl(strlen(CurLine(s).text, p, g))

\* edit_mode, case '\n': split the current line at the cursor
edit_newline(s, g) ==
    LET cl == CurLine(s)
        t  == cl.text
        p  == s.line_shift + s.crsr_x - 1
        redraw(s4) == redraw_screen(s4, s4.crsr_y, 0)
        \* if (*p != '\0') { cur_line_s->len = p - text; *p = '\0'; }
        cut(s2) ==
            IF Rd(t, p, g) # NUL
            THEN [s2 EXCEPT !.lines[s.cur_line_s].len = p,
                            !.lines[s.cur_line_s].text = poke(t, p, NUL),
                            !.fault = IF Outside(t, p, 1) THEN "oob_write"
                                      ELSE IF p < 0 THEN Worse(s.fault, "oob_read")
                                      ELSE s.fault]
            ELSE IF p < 0 \/ p >= Len(t) THEN Flag(s2, "oob_read") ELSE s2
        \* s1 is the state alloc_new_line left
        split(s1) ==
            IF s1.ret = 0 THEN oom(s1)
            ELSE redraw(go_to_start_of_next_line(
                            cut([s1 EXCEPT !.line_head = s1.hd])))
        nl(sl) ==
            IF sl < 0 THEN [s EXCEPT !.halt = "ub"]
            ELSE split(alloc_new_line(s, s.cur_line,
                                      [i \in 1..sl |-> Rd(t, p + i - 1, g)],
                                      s.line_head))
    IN  nl(strlen(t, p, g))

\* edit_mode, case '\b' and 0x7f
edit_backspace(s, g) ==
    IF s.crsr_x > 1
    THEN do_del_under_crsr([s EXCEPT !.crsr_x = s.crsr_x - 1], 1, g)
    ELSE s

\* edit_mode, the bytes that are neither control cases nor ESC
edit_char(s, c, g) ==
    IF c < 32 \/ c > 127
    THEN update_status([s EXCEPT !.custom_status = <<"Invalid char entered: ", c>>])
    ELSE LET redraw(s1) == redraw_line(s1, s1.cur_line_s, s1.crsr_y)
         IN  update_status(redraw(insert_char(s, c, g)))

\* end_edit_mode that leaves the column where it was
end_edit_mode_in_place(s) ==
    update_status(update_status([s EXCEPT !.vi_mode = MODE_COMMAND]))

\* end_edit_mode, and do_cmd's end_cmd after edit_mode returned
end_edit_mode(s) ==
    LET s1 == IF s.crsr_x > 1 THEN [s EXCEPT !.crsr_x = s.crsr_x - 1] ELSE s
    IN  update_status(update_status([s1 EXCEPT !.vi_mode = MODE_COMMAND]))

----------------------------------------------------------------------------
(* The command interpreter *)

IsDigit(c) == c >= K_0 /\ c <= K_9

RECURSIVE atoi(_)
atoi(ds) == IF ds = <<>> \/ ~IsDigit(ds[1]) THEN 0
            ELSE LET RECURSIVE go(_, _)
                     go(acc, r) == IF r = <<>> \/ ~IsDigit(r[1]) THEN acc
                                   ELSE go(acc * 10 + (r[1] - K_0), Tail(r))
                 IN  go(0, ds)

\* case 'd' after the second d: the deletion loop; ret is the final i
RECURSIVE dd_loop(_, _)
\* the deletion loop that unlinks the only line as it does any other
dd_loop_unlinking(s, i) ==
    IF s.halt # "" THEN s
    ELSE IF i <= 0 THEN [s EXCEPT !.ret = i]
    ELSE IF s.cur_line = s.line_count
         THEN IF s.cur_line > 1
              THEN LET below(s1) ==
                           [destroy_line(s1, CurLine(s1).next) EXCEPT !.ret = i]
                   IN  below(do_cursor_up(s))
              ELSE [s EXCEPT !.lines[s.cur_line_s] = FreeNode, !.line_head = 0,
                             !.line_count = 0, !.crsr_x = 0, !.line_shift = 0,
                             !.ret = i]
    ELSE LET above(s1) == destroy_line(s1, CurLine(s1).prev)
         IN  dd_loop(above([s EXCEPT !.cur_line_s = CurLine(s).next]), i - 1)

dd_loop(s, i) ==
    IF s.halt # "" THEN s
    ELSE IF i <= 0 THEN [s EXCEPT !.ret = i]
    ELSE IF s.cur_line = s.line_count
         THEN IF s.cur_line > 1
              THEN LET below(s1) ==
                           [destroy_line(s1, CurLine(s1).next) EXCEPT !.ret = i]
                   IN  below(do_cursor_up(s))
              ELSE LET home(s1) ==
                           IF s1.halt # "" THEN s1
                           ELSE [s1 EXCEPT !.crsr_x = 0, !.line_shift = 0, !.ret = i]
                   IN  home(destroy_line(s, s.cur_line_s))
    ELSE LET above(s1) == destroy_line(s1, CurLine(s1).prev)
         IN  dd_loop(above([s EXCEPT !.cur_line_s = CurLine(s).next]), i - 1)

\* case 'd' that leaves line_count as it found it
cmd_dd_uncounted(s, n) == [dd_loop(s, n) EXCEPT !.line_count = s.line_count]

\* case 'd' that deletes once whatever the count
cmd_dd_single(s, n) == [dd_loop(s, 1) EXCEPT !.ret = 0]

cmd_dd(s, n) ==
    LET report(s1) ==
            IF s1.halt = "" /\ s1.ret < n
            THEN [s1 EXCEPT !.custom_status =
                     <<"Deleted %d lines at %d", n - s1.ret, s1.cur_line>>]
            ELSE s1
    IN  report(dd_loop(s, n))

\* case 'x'
RECURSIVE cmd_x(_, _, _)
cmd_x(s, i, g) ==
    IF s.halt # "" \/ i <= 0 THEN s
    ELSE LET more(s1) == IF s1.halt = "" /\ s1.ret = 1 THEN s1
                          ELSE cmd_x(s1, i - 1, g)
         IN  more(do_del_under_crsr(s, 0, g))

\* case 'X'
RECURSIVE cmd_X(_, _, _)
cmd_X(s, i, g) ==
    IF s.halt # "" \/ i <= 0 THEN s
    ELSE IF s.crsr_x = 1 THEN s
    ELSE LET more(s1) == IF s1.halt = "" /\ s1.ret = 1 THEN s1
                          ELSE cmd_X(s1, i - 1, g)
         IN  more(do_del_under_crsr([s EXCEPT !.crsr_x = s.crsr_x - 1], 1, g))

end_cmd(s) == update_status(s)

\* do_cmd from the switch on, for the keys that need no further read;
\* n is num_times, u the byte sprintf finds in c
do_switch(s, c, n, g) ==
    IF c = K_h THEN end_cmd(do_cursor_left(s))
    ELSE IF c = K_j THEN end_cmd(do_cursor_down(s))
    ELSE IF c = K_k THEN end_cmd(do_cursor_up(s))
    ELSE IF c = K_l THEN end_cmd(do_cursor_right(s))
    ELSE IF c = K_x THEN end_cmd(cmd_x(s, n, g))
    ELSE IF c = K_X THEN end_cmd(cmd_X(s, n, g))
    ELSE IF c = K_bang
         THEN end_cmd([redraw_screen(s, 0, 0) EXCEPT !.custom_status = <<"dump">>])
    ELSE IF c = K_a
         THEN update_status(
                [do_cursor_right([s EXCEPT !.vi_mode = MODE_INSERT])
                 EXCEPT !.vi_mode = MODE_INSERT])
    ELSE IF c = K_i THEN update_status([s EXCEPT !.vi_mode = MODE_INSERT])
    ELSE IF c = K_o
         THEN LET redraw(s2) == redraw_screen(s2, s2.crsr_y, 0)
                  open(s1) ==
                      IF s1.ret = 0 THEN oom(s1)
                      ELSE update_status(
                             [redraw(go_to_start_of_next_line(
                                       [s1 EXCEPT !.line_head = s1.hd]))
                              EXCEPT !.vi_mode = MODE_INSERT])
              IN  open(alloc_new_line(s, s.cur_line, NullText, s.line_head))
    ELSE IF c = K_d THEN s
    ELSE IF c = K_colon THEN s
    ELSE end_cmd([s EXCEPT !.custom_status = <<"Unknown key %u", g>>])

\* do_cmd from its first line to the switch: digits is command[] without the
\* command letter
do_cmd_tail(s, c, digits, g) ==
    IF c = ESC \/ c < 32 \/ c > 127 THEN end_cmd(s)
    ELSE LET s1 == update_status([s EXCEPT !.custom_status = <<"cmd", digits, c>>])
             n0 == atoi(digits)
         IN  do_switch(s1, c, IF n0 < 1 THEN 1 ELSE n0, g)

NextPc(s, c) ==
    IF s.halt # "" THEN "halted"
    ELSE IF c = ESC \/ c < 32 \/ c > 127 THEN "cmd"
    ELSE IF c = K_d THEN "d"
    ELSE IF c = K_colon THEN "colon"
    ELSE IF c \in {K_a, K_i, K_o} THEN "insert"
    ELSE "cmd"

----------------------------------------------------------------------------
(* Files *)

\* fgets(buf, CHUNK_SIZE, fp): how many of the remaining bytes it takes
fgets(rest) ==
    LET nl == {i \in 1..Len(rest) : rest[i] = LF}
        n0 == IF nl = {} THEN Len(rest) ELSE Min(nl)
    IN  IF n0 > CHUNK_SIZE - 1 THEN CHUNK_SIZE - 1 ELSE n0

\* load_file's loop; cll is cur_load_line, cnt is load_line_count
RECURSIVE load_loop(_, _, _, _)
load_loop(s, rest, cll, cnt) ==
    IF rest = <<>> THEN [s EXCEPT !.ret = cnt]
    ELSE LET \* buflen = strlen(buf) - 1; a trailing \n or \r is dropped
             strip(buf, buflen) ==
                 IF buf[buflen + 1] = LF \/ buf[buflen + 1] = CR
                 THEN SubSeq(buf, 1, buflen) ELSE buf
             \* if (!line_head) { line_head = cur_load_line; prev = NULL; }
             head(s1) == IF s1.line_head = 0
                         THEN [s1 EXCEPT !.line_head = s1.ret,
                                         !.lines[s1.ret].prev = 0]
                         ELSE s1
             \* s1 is the state alloc_new_line left, n the bytes fgets took
             next(s1, n) ==
                 IF s1.ret = 0 THEN [s1 EXCEPT !.ret = -5]
                 ELSE load_loop(head(s1), SubSeq(rest, n + 1, Len(rest)),
                                s1.ret, cnt + 1)
             line(n) ==
                 next(alloc_new_line(s, 0, strip(SubSeq(rest, 1, n), n - 1), cll), n)
         IN  line(fgets(rest))

\* f is the invocation: kind "none" (no argument), "missing" (fopen fails)
\* or "file" with its bytes
load_file(s, f, start_line) ==
    IF start_line # 0 /\ start_line > s.line_count THEN [s EXCEPT !.ret = -1]
    ELSE IF f.kind = "none" THEN [s EXCEPT !.ret = -2]
    ELSE IF f.kind = "missing" THEN [s EXCEPT !.ret = -3]
    ELSE LET w   == walk_to_line(s.lines, start_line, s.line_head)
             cll == IF w = 0 THEN s.line_head ELSE w
         IN  load_loop(s, f.bytes, cll, 0)

RECURSIVE save_loop(_, _)
save_loop(h, line) ==
    IF line = 0 THEN <<>>
    ELSE Bytes(h[line]) \o <<LF>> \o save_loop(h, h[line].next)

\* name is the string passed (<<>> is ""); io is what the file system does:
\* "ok", "fopen" (the file cannot be opened), "fwrite" (the file is opened,
\* which empties it, and the first write fails)
save_file(s, name, io) ==
    IF name = <<>> THEN [s EXCEPT !.ret = -1]
    ELSE IF io = "fopen" THEN [s EXCEPT !.ret = -1]
    ELSE IF io = "fwrite"
         THEN [s EXCEPT !.outname = name, !.outfile = <<>>, !.ret = -1]
    ELSE [s EXCEPT !.outname = name,
                   !.outfile = save_loop(s.lines, s.line_head), !.ret = 0]

----------------------------------------------------------------------------
(* The colon command *)

\* get_command_string with Escape ending the line as a newline does
colon_byte_esc_enters(cmd, cc) ==
    IF cc = ESC \/ cc = LF \/ cc = CR
    THEN [done |-> TRUE, ret |-> Len(cmd), cmd |-> cmd]
    ELSE IF cc = BS \/ cc = DEL
         THEN IF Len(cmd) = 0 THEN [done |-> TRUE, ret |-> 0, cmd |-> <<>>]
              ELSE [done |-> FALSE, ret |-> 0, cmd |-> SubSeq(cmd, 1, Len(cmd) - 1)]
    ELSE [done |-> Len(cmd) + 1 = MAX_CMDSIZE, ret |-> Len(cmd) + 1,
          cmd |-> Append(cmd, cc)]

\* get_command_string at one byte read: cmd is command[0 .. cmdsize).  done
\* says that the function returns, ret what it returns, cmd what it leaves
colon_byte(cmd, cc) ==
    IF cc = ESC THEN [done |-> TRUE, ret |-> 0, cmd |-> <<>>]
    ELSE IF cc = BS \/ cc = DEL
         THEN IF Len(cmd) = 0 THEN [done |-> TRUE, ret |-> 0, cmd |-> <<>>]
              ELSE [done |-> FALSE, ret |-> 0, cmd |-> SubSeq(cmd, 1, Len(cmd) - 1)]
    ELSE IF cc = LF \/ cc = CR THEN [done |-> TRUE, ret |-> Len(cmd), cmd |-> cmd]
    ELSE [done |-> Len(cmd) + 1 = MAX_CMDSIZE, ret |-> Len(cmd) + 1,
          cmd |-> Append(cmd, cc)]

\* a buffer's bytes as a C string: those before the first NUL
CStr(b) == SubSeq(b, 1, Min({i \in 1..(Len(b) + 1) : i > Len(b) \/ b[i] = NUL}) - 1)

\* end_vi
end_vi(s) == [destroy_buffer(term_restore(s)) EXCEPT !.halt = "exit"]

\* the colon case with wq going to the save whether or not a name is known
colon_cmd_unchecked(s, cmd, io) ==
    LET cmd_len == Len(cmd)
        quit(s1) == IF s1.ret = 0 THEN end_vi(s1) ELSE end_cmd(s1)
        saved(s1) ==
            end_cmd(IF s1.ret # 0
                    THEN [s1 EXCEPT !.custom_status = <<"Error while saving file">>]
                    ELSE s1)
        nameless == [s EXCEPT !.custom_status =
                                 <<"Cannot save: no file name specified">>]
    IN  IF cmd_len = 0 THEN end_cmd(s)
        ELSE IF Len(CStr(cmd)) >= 2 /\ SubSeq(CStr(cmd), 1, 2) = <<K_w, K_q>>
        THEN quit(save_file(s, s.curfile, io))
        ELSE IF cmd[1] = K_w
        THEN IF cmd_len < 4 \/ cmd[3] = NUL
             THEN IF s.curfile # <<>> THEN saved(save_file(s, s.curfile, io))
                  ELSE end_cmd(nameless)
             ELSE saved(save_file(s, CStr(SubSeq(cmd, 3, cmd_len)), io))
        ELSE IF CStr(cmd) = <<K_q>> THEN end_vi(s)
        ELSE IF CStr(cmd) = <<K_q, K_bang>> THEN end_vi(s)
        ELSE end_cmd(s)

\* do_cmd, case ':' after get_command_string returned cmd_len = Len(cmd)
colon_cmd(s, cmd, io) ==
    LET cmd_len == Len(cmd)
        \* if (save_file(curfile) == 0) goto end_vi; else goto end_cmd;
        quit(s1) == IF s1.ret = 0 THEN end_vi(s1) ELSE end_cmd(s1)
        \* if (i) sprintf(custom_status, "Error while saving file");
        saved(s1) ==
            end_cmd(IF s1.ret # 0
                    THEN [s1 EXCEPT !.custom_status = <<"Error while saving file">>]
                    ELSE s1)
        nameless == [s EXCEPT !.custom_status =
                                 <<"Cannot save: no file name specified">>]
    IN  IF cmd_len = 0 THEN end_cmd(s)
        ELSE IF Len(CStr(cmd)) >= 2 /\ SubSeq(CStr(cmd), 1, 2) = <<K_w, K_q>>
        THEN IF cmd_len = 2 /\ s.curfile # <<>>
             THEN quit(save_file(s, s.curfile, io))
             ELSE IF cmd_len < 4 THEN end_cmd(nameless)
             ELSE quit(save_file(s, s.curfile, io))
        ELSE IF cmd[1] = K_w
        THEN IF cmd_len < 4 \/ cmd[3] = NUL
             THEN IF s.curfile # <<>> THEN saved(save_file(s, s.curfile, io))
                  ELSE end_cmd(nameless)
             ELSE saved(save_file(s, CStr(SubSeq(cmd, 3, cmd_len)), io))
        ELSE IF CStr(cmd) = <<K_q>> THEN end_vi(s)
        ELSE IF CStr(cmd) = <<K_q, K_bang>> THEN end_vi(s)
        ELSE end_cmd(s)

----------------------------------------------------------------------------
(* Startup *)

Fresh(rows, cols) ==
    [lines |-> [n \in Nodes |-> FreeNode], line_head |-> 0, line_count |-> 0,
     cur_line |-> 0, cur_line_s |-> 0, crsr_x |-> 0, crsr_y |-> 0,
     line_shift |-> 0, vi_mode |-> MODE_COMMAND, term_rows |-> rows,
     term_cols |-> cols, custom_status |-> <<>>, shown |-> <<>>, fault |-> "",
     halt |-> "", outfile |-> <<>>, outname |-> <<>>, curfile |-> <<>>,
     tty |-> "cooked", frees |-> NoFrees, ret |-> 0, hd |-> 0]

\* argv[1] when there is one: the name "f"
ArgName == <<102>>

\* main() up to its read loop
main(f, rows, cols) ==
    LET s0 == [Fresh(rows, cols) EXCEPT
                  !.cur_line = 1,
                  !.curfile = IF f.kind = "none" THEN <<>> ELSE ArgName]
        \* the one empty line of a buffer that was not loaded
        first(empty) ==
            [empty EXCEPT !.line_head = empty.hd, !.cur_line_s = empty.ret]
        one == first(alloc_new_line(s0, s0.line_count, NullText, s0.line_head))
        \* ld is the state load_file left
        loaded(ld) ==
            IF ld.ret = -3
            THEN [one EXCEPT !.custom_status = <<"'%s' [NEW FILE]">>]
            ELSE IF ld.ret < 0 THEN [ld EXCEPT !.halt = "exit_failure"]
            ELSE [ld EXCEPT !.cur_line_s = ld.line_head,
                            !.custom_status = <<"Read %d lines from '%s'", ld.ret>>]
        \* term_init, then the first drawing
        start(s1) ==
            IF s1.halt # "" THEN s1
            ELSE update_status(redraw_screen(
                   [s1 EXCEPT !.tty = "raw",
                              !.crsr_x = 1, !.crsr_y = 1, !.line_shift = 0], 0, 0))
    IN  start(IF f.kind = "none" THEN one ELSE loaded(load_file(s0, f, 0)))

----------------------------------------------------------------------------
(* The state machine *)

WellFormed(s) ==
    /\ \A n \in Nodes :
          s.lines[n].live => s.lines[n].len = strlen(s.lines[n].text, 0, NUL)
    /\ s.cur_line_s # 0
    /\ s.line_shift >= 0
    /\ s.crsr_x >= 1
    /\ s.crsr_x + s.line_shift - 1 <= CurLine(s).len
    /\ (s.vi_mode = MODE_COMMAND /\ CurLine(s).len > 0)
           => s.crsr_x + s.line_shift <= CurLine(s).len

\* the bytes behind a string's terminator are read from no well-formed
\* state: they are zeroed there
Tidy(s) ==
    IF s.halt = "" /\ WellFormed(s)
    THEN [s EXCEPT !.lines = [n \in Nodes |->
            IF s.lines[n].live
            THEN [s.lines[n] EXCEPT !.text =
                    [i \in 1..Len(s.lines[n].text) |->
                        IF i > s.lines[n].len THEN NUL ELSE s.lines[n].text[i]]]
            ELSE s.lines[n]]]
    ELSE s

\* malloc's choice of address is arbitrary: the nodes are renamed so that the
\* list reads 1, 2, ... from line_head, the other allocated nodes follow and
\* the free ones come last.  Every pointer is renamed with them.
RECURSIVE Sorted(_)
Sorted(S) == IF S = {} THEN <<>> ELSE <<Min(S)>> \o Sorted(S \ {Min(S)})

Canon(s) ==
    LET \* order[i] becomes node i; m[n] is the new number of node n
        rename(order, m) ==
            [s EXCEPT !.lines = [i \in Nodes |->
                        [s.lines[order[i]] EXCEPT
                           !.prev = IF @ = 0 THEN 0 ELSE m[@],
                           !.next = IF @ = 0 THEN 0 ELSE m[@]]],
                      !.line_head = IF @ = 0 THEN 0 ELSE m[@],
                      !.cur_line_s = IF @ = 0 THEN 0 ELSE m[@]]
        number(order) ==
            rename(order,
                   [n \in Nodes |-> CHOOSE i \in 1..Len(order) : order[i] = n])
        canon(ch, inCh) ==
            IF Cardinality(inCh) # Len(ch) THEN s
            ELSE IF /\ \A i \in 1..Len(ch) : ch[i] = i
                    /\ \A n \in Nodes \ inCh : ~s.lines[n].live
                 THEN s
            ELSE number(ch \o Sorted({n \in Nodes \ inCh : s.lines[n].live})
                           \o Sorted({n \in Nodes \ inCh : ~s.lines[n].live}))
        chain(ch) == canon(ch, {ch[i] : i \in 1..Len(ch)})
    IN  chain(Reach(s.lines, s.line_head))

\* the document as save_file would write it, line by line
DocOf(h, head) == [i \in 1..Len(Reach(h, head)) |-> Bytes(h[Reach(h, head)[i]])]

Doc == DocOf(lines, line_head)

Assign(s) ==
    /\ lines' = s.lines
    /\ line_head' = s.line_head
    /\ line_count' = s.line_count
    /\ cur_line' = s.cur_line
    /\ cur_line_s' = s.cur_line_s
    /\ crsr_x' = s.crsr_x
    /\ crsr_y' = s.crsr_y
    /\ line_shift' = s.line_shift
    /\ vi_mode' = s.vi_mode
    /\ term_rows' = s.term_rows
    /\ term_cols' = s.term_cols
    /\ custom_status' = s.custom_status
    /\ shown' = s.shown
    /\ fault' = s.fault
    /\ halt' = s.halt
    /\ outfile' = s.outfile
    /\ outname' = s.outname
    /\ curfile' = s.curfile
    /\ tty' = s.tty
    /\ frees' = s.frees

\* the invocations: no argument, a name that cannot be opened, and files
Files == { <<>>, <<97, 98, 99, LF, LF>> }

Invocations == {[kind |-> "none", bytes |-> <<>>]}
               \cup {[kind |-> "file", bytes |-> b] : b \in Files}

\* the bytes read() delivers in command mode
CmdKeys == {K_h, K_j, K_k, K_l, K_x, K_X, K_d, K_i, K_a, K_o, K_bang, ESC, 122}
           \cup ((K_0 + 2)..(K_0 + MaxCount))

\* the bytes read() delivers after d
DKeys == {K_d, ESC, K_j}

\* the bytes read() delivers in insert mode
EditKeys == {122, BS, LF, ESC, 7}

\* the values an out-of-bounds or uninitialised byte may have
Garbage == {NUL, 122}

\* the state main leaves when the editor is started in one of the ways invs
Begun(invs, rowset, colset) ==
    \E f \in invs, rows \in rowset, cols \in colset :
        \E s \in {main(f, rows, cols)} :
            /\ lines = s.lines
            /\ line_head = s.line_head
            /\ line_count = s.line_count
            /\ cur_line = s.cur_line
            /\ cur_line_s = s.cur_line_s
            /\ crsr_x = s.crsr_x
            /\ crsr_y = s.crsr_y
            /\ line_shift = s.line_shift
            /\ vi_mode = s.vi_mode
            /\ term_rows = s.term_rows
            /\ term_cols = s.term_cols
            /\ custom_status = s.custom_status
            /\ shown = s.shown
            /\ fault = s.fault
            /\ halt = s.halt
            /\ outfile = s.outfile
            /\ outname = s.outname
            /\ curfile = s.curfile
            /\ tty = s.tty
            /\ frees = s.frees
            /\ cmdline = <<>>
            /\ pc = IF s.halt = "" THEN "cmd" ELSE "halted"
            /\ command = <<>>
            /\ num_times = 1
            /\ infile = f
            /\ key = NUL

Start(invs) == Begun(invs, {MaxRows}, {MaxCols})

\* an automatic variable that was not assigned yet
Uninit == -1

\* main's c and edit_mode's c are read only after a read that was
\* interrupted, and recorded only in the specification that has one
NotHeld == [on |-> FALSE, main |-> Uninit, edit |-> Uninit]

\* the byte c is stored in the variable who of held
Hold(who, c) == IF held.on THEN [held EXCEPT ![who] = c] ELSE held

Init == Start(Invocations) /\ held = NotHeld

\* the oracle matters only where the handler consults it: where a read left
\* a buffer or found an uninitialised byte
Consulted(s0, g, unk) == g # NUL => (unk \/ s0.fault # "")

\* the model's bounds on what a key may grow
Within(c) == c = K_o => line_count < MaxLines

\* the window of states the model follows
RECURSIVE SumLen(_, _)
SumLen(h, S) == IF S = {} THEN 0
                ELSE h[Min(S)].len + SumLen(h, S \ {Min(S)})

Fits(s, room) == SumLen(s.lines, Nodes) <= room

Window(s) == Fits(s, MaxChars)

\* keys are followed from the states in which every len is the length of its
\* string and the cursor addresses a byte of the current line's string, or
\* its terminator in insert mode or on an empty line; a state that is not so
\* is reached and kept, and the keys typed in it are not followed
Followed == halt = "" /\ WellFormed(St)

\* a write that left its buffer has undefined behaviour: the state it left
\* is kept, and what the process does after it is not followed
Ended(s) == IF s.halt = "" /\ s.fault = "oob_write"
            THEN [s EXCEPT !.halt = "ub"] ELSE s

\* do_cmd entered with the byte the main loop read, one of keys; room is the
\* number of bytes the lines may hold together afterwards
CmdStep(keys, room) ==
    /\ pc = "cmd"
    /\ Followed
    /\ \E c \in keys, g \in Garbage :
        /\ Within(c)
        /\ Consulted(do_cmd_tail(St, c, <<>>, NUL), g, c = 122)
        /\ key' = c
        /\ held' = Hold("main", c)
        /\ infile' = infile
        /\ cmdline' = IF c = K_colon THEN <<>> ELSE cmdline
        /\ IF IsDigit(c)
           THEN /\ Assign(update_status([St EXCEPT !.custom_status = <<"count", <<c>>>>]))
                /\ command' = <<c>>
                /\ num_times' = num_times
                /\ pc' = "count"
           ELSE \E s \in {Canon(Tidy(Ended(do_cmd_tail(St, c, <<>>, g))))} :
                    /\ Fits(s, room)
                    /\ Assign(s)
                    /\ command' = <<>>
                    /\ num_times' = 1
                    /\ pc' = NextPc(s, c)

CmdKey == CmdStep(CmdKeys, MaxChars)

\* do_cmd blocked in the read of its digit loop
CountStep(keys) ==
    /\ pc = "count"
    /\ Followed
    /\ \E c \in keys, g \in Garbage :
        /\ Within(c)
        /\ IsDigit(c) => Len(command) < MaxDigits
        /\ Consulted(do_cmd_tail(St, c, command, NUL), g, c = 122)
        /\ key' = c
        /\ held' = held
        /\ infile' = infile
        /\ cmdline' = IF c = K_colon THEN <<>> ELSE cmdline
        /\ IF IsDigit(c)
           THEN /\ Assign(update_status(
                      [St EXCEPT !.custom_status = <<"count", Append(command, c)>>]))
                /\ command' = Append(command, c)
                /\ num_times' = num_times
                /\ pc' = "count"
           ELSE \E s \in {Canon(Tidy(Ended(do_cmd_tail(St, c, command, g))))} :
                    /\ Window(s)
                    /\ Assign(s)
                    /\ command' = <<>>
                    /\ num_times' = IF NextPc(s, c) = "d" /\ atoi(command) >= 1
                                    THEN atoi(command) ELSE 1
                    /\ pc' = NextPc(s, c)

CountKey == CountStep(CmdKeys)

\* do_cmd blocked in the read after d
DKey ==
    /\ pc = "d"
    /\ Followed
    /\ \E c \in DKeys :
        /\ \E s \in {Canon(Tidy(Ended(IF c = K_d THEN end_cmd(cmd_dd(St, num_times))
                                       ELSE end_cmd(St))))} :
               /\ Window(s)
               /\ Assign(s)
               /\ key' = c
               /\ held' = held
               /\ infile' = infile
               /\ cmdline' = cmdline
               /\ command' = <<>>
               /\ num_times' = 1
               /\ pc' = IF s.halt # "" THEN "halted" ELSE "cmd"

\* edit_mode, the switch on the byte read
edit_key(s, c, g) ==
    IF c = NUL THEN s
    ELSE IF c = BS \/ c = DEL THEN edit_backspace(s, g)
    ELSE IF c = LF \/ c = CR THEN edit_newline(s, g)
    ELSE IF c = ESC THEN end_edit_mode(s)
    ELSE edit_char(s, c, g)

\* edit_mode blocked in its read, which delivers one of keys
EditStep(keys, room) ==
    /\ pc = "insert"
    /\ Followed
    /\ \E c \in keys, g \in Garbage :
        /\ c = LF => line_count < MaxLines
        /\ Consulted(edit_key(St, c, NUL), g, FALSE)
        /\ \E s \in {Canon(Tidy(Ended(edit_key(St, c, g))))} :
               /\ Fits(s, room)
               /\ Assign(s)
               /\ pc' = IF s.halt # "" THEN "halted"
                        ELSE IF c = ESC THEN "cmd" ELSE "insert"
        /\ key' = c
        /\ held' = Hold("edit", IF c = ESC THEN Uninit ELSE c)
        /\ UNCHANGED <<infile, command, num_times, cmdline>>

EditKey == EditStep(EditKeys, MaxChars)

Next == CmdKey \/ CountKey \/ DKey \/ EditKey

Spec == Init /\ [][Next]_vars

----------------------------------------------------------------------------
(* Typing into one line of a buffer started without a file *)

\* a line is followed until it holds this many bytes
MaxTyped == 32

TypeCmdKeys == {K_i, K_a, K_h}

TypeEditKeys == {122, ESC}

InitType == Init /\ infile.kind = "none"

TypeCmd == CmdStep(TypeCmdKeys, MaxTyped)

TypeEdit == EditStep(TypeEditKeys, MaxTyped)

NextType == TypeCmd \/ TypeEdit

SpecType == InitType /\ [][NextType]_vars

----------------------------------------------------------------------------
(* Colon commands, counts and d, on a buffer started in each of the ways *)

AllInvocations == Invocations \cup {[kind |-> "missing", bytes |-> <<>>]}

InitColon == Start(AllInvocations) /\ held = NotHeld

\* the lines typed after the colon: q, q!, w, wq, "w a", "w ab", "wq a",
\* "wq ab", wx, wqx, wqxy, qq, foo
ColonLines ==
    { <<K_q>>, <<K_q, K_bang>>, <<K_w>>, <<K_w, K_q>>,
      <<K_w, SPACE, 97>>, <<K_w, SPACE, 97, 98>>,
      <<K_w, K_q, SPACE, 97>>, <<K_w, K_q, SPACE, 97, 98>>,
      <<K_w, 120>>, <<K_w, K_q, 120>>, <<K_w, K_q, 120, 121>>,
      <<K_q, K_q>>, <<102, 111, 111>> }

\* the bytes read() delivers to get_command_string
ColonKeys == UNION {{l[i] : i \in 1..Len(l)} : l \in ColonLines} \cup {LF, ESC, BS}

IsPrefix(a, b) == Len(a) <= Len(b) /\ SubSeq(b, 1, Len(a)) = a

\* how fopen and fwrite fare in save_file
SaveOutcomes == {"ok", "fopen", "fwrite"}

ColonCmdKeys == {K_colon, K_j, K_d, K_i, ESC, K_0 + 2}

ColonEditKeys == {122, ESC}

ColonCmd == CmdStep(ColonCmdKeys, MaxChars)

ColonCount == CountStep(ColonCmdKeys)

ColonEdit == EditStep(ColonEditKeys, MaxChars)

\* do_cmd blocked in the read of get_command_string; cmdline is command[0 ..
\* cmdsize), and stays as the last call left it until the next call
ColonByte ==
    /\ pc = "colon"
    /\ Followed
    /\ \E cc \in ColonKeys, io \in SaveOutcomes :
        \E r \in {colon_byte(cmdline, cc)} :
            /\ key' = cc
            /\ UNCHANGED <<infile, command, num_times, held>>
            /\ IF r.done
               THEN /\ io # "ok" => colon_cmd(St, r.cmd, io) # colon_cmd(St, r.cmd, "ok")
                    /\ \E s \in {Canon(Tidy(Ended(colon_cmd(St, r.cmd, io))))} :
                           /\ Assign(s)
                           /\ pc' = IF s.halt # "" THEN "halted" ELSE "cmd"
                    /\ cmdline' = r.cmd
               ELSE /\ io = "ok"
                    /\ \E l \in ColonLines : IsPrefix(r.cmd, l)
                    /\ Assign(St)
                    /\ pc' = "colon"
                    /\ cmdline' = r.cmd

NextColon == ColonCmd \/ ColonCount \/ DKey \/ ColonEdit \/ ColonByte

SpecColon == InitColon /\ [][NextColon]_vars

----------------------------------------------------------------------------
(* The ways out: the colon commands, the end of the input, allocations that *)
(* fail                                                                     *)

\* the allocation of alloc_new_line that fails
AllocPoints == {"node", "text"}

\* read() returns 0 in main, or in edit_mode, which then returns to main
EndOfInput ==
    /\ pc \in {"cmd", "insert"}
    /\ Followed
    /\ \E s \in {IF pc = "cmd" THEN clean_abort(St)
                  ELSE clean_abort(end_edit_mode(St))} :
           Assign(s)
    /\ pc' = "halted"
    /\ UNCHANGED <<infile, command, num_times, cmdline, held, key>>

\* o in do_cmd, or a newline in edit_mode, whose alloc_new_line runs out of
\* memory
OutOfMemory ==
    /\ Followed
    /\ line_count < MaxLines
    /\ \E c \in {K_o, LF}, point \in AllocPoints :
        /\ pc = IF c = K_o THEN "cmd" ELSE "insert"
        /\ \E s \in {alloc_new_line_oom(
                        IF c = K_o
                        THEN update_status(
                               [St EXCEPT !.custom_status = <<"cmd", <<>>, c>>])
                        ELSE St,
                        cur_line, point)} :
               Assign(s)
        /\ key' = c
    /\ pc' = "halted"
    /\ UNCHANGED <<infile, command, num_times, cmdline, held>>

NextExit == NextColon \/ EndOfInput \/ OutOfMemory

SpecExit == InitColon /\ [][NextExit]_vars

----------------------------------------------------------------------------
(* The terminal is resized while the editor waits for a key *)

\* the sizes the ioctl may report: rows with the status row, and columns
WinRows == 0..(MaxRows + 1)
WinCols == 0..MaxCols

ResizeCmdKeys == {K_h, K_j, K_k, K_l, K_i, K_o, ESC}

ResizeEditKeys == {122, LF, ESC}

ResizeCmd == CmdStep(ResizeCmdKeys, MaxChars)

ResizeEdit == EditStep(ResizeEditKeys, MaxChars)

\* SIGWINCH is delivered before the next read
Resize ==
    /\ pc \in {"cmd", "insert"}
    /\ Followed
    /\ \E ws_row \in WinRows, ws_col \in WinCols :
           \E s \in {sigwinch_handler(St, ws_row, ws_col)} :
               /\ Assign(s)
               /\ pc' = IF s.halt = "" THEN pc ELSE "halted"
    /\ UNCHANGED <<infile, command, num_times, cmdline, held, key>>

NextResize == ResizeCmd \/ ResizeEdit \/ Resize

SpecResize == Init /\ [][NextResize]_vars

----------------------------------------------------------------------------
(* SIGWINCH is delivered while a read is blocked.  The handler is installed *)
(* without SA_RESTART, so the read returns -1 when the handler is done and  *)
(* the loop goes on with the byte c held before.                            *)

SignalCmdKeys == {K_x, K_l, K_j, K_i, K_d}

SignalEditKeys == {122, ESC}

InitSignal == Start(Invocations) /\ held = [NotHeld EXCEPT !.on = TRUE]

SignalCmd == CmdStep(SignalCmdKeys, MaxChars)

SignalEdit == EditStep(SignalEditKeys, MaxChars)

\* the handler runs inside the read of main or of edit_mode
Interrupted ==
    /\ pc \in {"cmd", "insert"}
    /\ Followed
    /\ \E ws_row \in WinRows, ws_col \in WinCols :
           \E s \in {sigwinch_handler(St, ws_row, ws_col)} :
               /\ Assign(s)
               /\ pc' = IF s.halt # "" THEN "halted"
                        ELSE IF pc = "cmd" THEN "eintr_cmd" ELSE "eintr_insert"
    /\ UNCHANGED <<infile, command, num_times, cmdline, held, key>>

\* main's read has returned -1: while (read(...)) do_cmd(c)
RedoCmd ==
    /\ pc = "eintr_cmd"
    /\ Followed
    /\ \E c \in (IF held.main = Uninit THEN Garbage ELSE {held.main}),
          g \in Garbage :
        /\ Within(c)
        /\ Consulted(do_cmd_tail(St, c, <<>>, NUL), g, c = 122)
        /\ \E s \in {Canon(Tidy(Ended(do_cmd_tail(St, c, <<>>, g))))} :
               /\ Fits(s, MaxChars)
               /\ Assign(s)
               /\ pc' = NextPc(s, c)
        /\ key' = c
        /\ held' = Hold("main", c)
    /\ command' = <<>>
    /\ num_times' = 1
    /\ UNCHANGED <<infile, cmdline>>

\* edit_mode's read has returned -1: the switch runs on the c held before
RedoEdit ==
    /\ pc = "eintr_insert"
    /\ Followed
    /\ \E c \in (IF held.edit = Uninit THEN Garbage ELSE {held.edit}),
          g \in Garbage :
        /\ Consulted(edit_key(St, c, NUL), g, FALSE)
        /\ \E s \in {Canon(Tidy(Ended(edit_key(St, c, g))))} :
               /\ Fits(s, MaxChars)
               /\ Assign(s)
               /\ pc' = IF s.halt # "" THEN "halted" ELSE "insert"
        /\ key' = c
        /\ held' = Hold("edit", c)
    /\ UNCHANGED <<infile, command, num_times, cmdline>>

\* destroy_line on line 1 of several, stopped behind free(temp_line): the
\* node is freed, line_head and line_count are not yet brought up to date
destroy_line_freed(s, target_line) ==
    LET h == s.lines
        t == h[target_line]
    IN  [s EXCEPT !.lines = [n \in Nodes |->
                      IF n = target_line THEN FreeNode
                      ELSE IF n = t.next THEN [h[n] EXCEPT !.prev = 0]
                      ELSE h[n]]]

\* dd on line 1 of several; SIGWINCH is delivered inside destroy_line
SigInDestroy ==
    /\ pc = "d"
    /\ Followed
    /\ cur_line < line_count
    /\ lines[cur_line_s].prev = 0
    /\ lines[cur_line_s].next # 0
    /\ \E s \in {destroy_line_freed([St EXCEPT !.cur_line_s = CurLine(St).next],
                                     cur_line_s)} :
           Assign(s)
    /\ key' = K_d
    /\ pc' = "sig_destroy"
    /\ UNCHANGED <<infile, command, num_times, cmdline, held>>

\* the handler's redraw_screen walks from line_head, a node that is freed
HandlerInDestroy ==
    /\ pc = "sig_destroy"
    /\ ~lines[line_head].live
    /\ Assign([St EXCEPT !.fault = "use_after_free", !.halt = "ub"])
    /\ pc' = "halted"
    /\ UNCHANGED <<infile, command, num_times, cmdline, held, key>>

NextSignal ==
    \/ SignalCmd \/ SignalEdit \/ DKey
    \/ Interrupted \/ RedoCmd \/ RedoEdit
    \/ SigInDestroy \/ HandlerInDestroy

SpecSignal == InitSignal /\ [][NextSignal]_vars

----------------------------------------------------------------------------
(* The position shown on the status line: a file of as many lines as there  *)
(* are nodes, in terminals of every size                                    *)

\* the keys of this specification are followed while the lines hold at most
\* this many bytes together
MaxStatusChars == 4

\* the file "a\na\na\na\n"
StatusFile == [kind |-> "file", bytes |-> <<97, LF, 97, LF, 97, LF, 97, LF>>]

StatusCmdKeys == {K_j, K_k, K_x, K_i, K_d}

StatusEditKeys == {122, ESC}

InitStatus == Begun({StatusFile}, 1..MaxRows, 1..MaxCols) /\ held = NotHeld

StatusCmd == CmdStep(StatusCmdKeys, MaxStatusChars)

StatusEdit == EditStep(StatusEditKeys, MaxStatusChars)

NextStatus == StatusCmd \/ StatusEdit \/ DKey

SpecStatus == InitStatus /\ [][NextStatus]_vars

----------------------------------------------------------------------------
(* Loading a file and saving the buffer it gave, with no key in between *)

\* the short files hold at most this many bytes
MaxFileLen == 3

FileBytes == {97, CR, LF}

RECURSIVE Strings(_)
Strings(n) == IF n = 0 THEN {<<>>}
              ELSE Strings(n - 1)
                   \cup {Append(b, c) : b \in Strings(n - 1), c \in FileBytes}

\* one record of n bytes and its terminator
Record(n) == [i \in 1..n |-> 97] \o <<LF>>

\* the records that just fill, and just overflow, what one fgets takes
LongFiles == {Record(CHUNK_SIZE - 2), Record(CHUNK_SIZE - 1)}

InitFile ==
    \E b \in Strings(MaxFileLen) \cup LongFiles :
        \E s \in {[Fresh(MaxRows, MaxCols) EXCEPT !.cur_line = 1,
                                                   !.curfile = ArgName]} :
            /\ lines = s.lines
            /\ line_head = s.line_head
            /\ line_count = s.line_count
            /\ cur_line = s.cur_line
            /\ cur_line_s = s.cur_line_s
            /\ crsr_x = s.crsr_x
            /\ crsr_y = s.crsr_y
            /\ line_shift = s.line_shift
            /\ vi_mode = s.vi_mode
            /\ term_rows = s.term_rows
            /\ term_cols = s.term_cols
            /\ custom_status = s.custom_status
            /\ shown = s.shown
            /\ fault = s.fault
            /\ halt = s.halt
            /\ outfile = s.outfile
            /\ outname = s.outname
            /\ curfile = s.curfile
            /\ tty = s.tty
            /\ frees = s.frees
            /\ cmdline = <<>>
            /\ pc = "load"
            /\ command = <<>>
            /\ num_times = 1
            /\ infile = [kind |-> "file", bytes |-> b]
            /\ held = NotHeld
            /\ key = NUL

\* load_file(curfile, 0)
Load ==
    /\ pc = "load"
    /\ \E s \in {load_file(St, infile, 0)} :
        /\ Assign(s)
        /\ pc' = IF s.ret < 0 THEN "halted" ELSE "loaded"
    /\ UNCHANGED <<command, num_times, infile, cmdline, held, key>>

\* save_file(name) with a non-empty name
Save ==
    /\ pc = "loaded"
    /\ Assign(save_file(St, ArgName, "ok"))
    /\ pc' = "saved"
    /\ UNCHANGED <<command, num_times, infile, cmdline, held, key>>

NextFile == Load \/ Save

SpecFile == InitFile /\ [][NextFile]_vars

----------------------------------------------------------------------------
(* The properties *)

\* the process has not exited
Waiting == halt \in {"", "ub"}

\* C1: whenever the process is alive, after any keys that created or removed
\* lines (the load at startup, o, Enter, dd with any count on any line),
\* line_count is the number of nodes reached from line_head by next links.
C1_LineCountIsChainLength ==
    Waiting => line_count = Len(Reach(lines, line_head))

\* a dd has just left two lines of a buffer that was started without a file,
\* so that every line it ever held was made by o or Enter
C1_Witness ==
    /\ halt = ""
    /\ key = K_d
    /\ pc = "cmd"
    /\ infile.kind = "none"
    /\ line_count = 2
    /\ Len(Reach(lines, line_head)) = 2

\* C2: whenever the editor waits for a key the document has at least one
\* line; dd, with any count, typed when one line remains leaves that node in
\* place with length 0 and an empty string, and line_count at 1.
C2_AtLeastOneLine ==
    /\ [](Waiting => (line_count >= 1 /\ line_head # 0 /\ lines[line_head].live))
    /\ [][(pc = "d" /\ key' = K_d /\ line_count = 1 /\ halt' = "")
            => /\ line_count' = 1
               /\ line_head' # 0
               /\ lines'[line_head'].live
               /\ lines'[line_head'].len = 0
               /\ Rd(lines'[line_head'].text, 0, NUL) = NUL]_vars

\* dd was typed on the only line, which held text, and emptied it
C2_Witness ==
    /\ halt = ""
    /\ key = K_d
    /\ pc = "cmd"
    /\ crsr_x = 0
    /\ line_count = 1
    /\ lines[line_head].len = 0
    /\ infile.kind = "file"

\* C3: whenever the editor waits for a key, crsr_x + line_shift is at most
\* the current line's length, plus 1 outside Command mode.  The position the
\* editor itself gives the cursor on an empty line (column 1, no shift) is
\* let through, so that what is refuted is more than the empty line.
C3_ColumnWithinLine ==
    (halt = "" /\ cur_line_s # 0)
        => \/ crsr_x + line_shift
                <= lines[cur_line_s].len + (IF vi_mode # MODE_COMMAND THEN 1 ELSE 0)
           \/ (lines[cur_line_s].len = 0 /\ crsr_x = 1 /\ line_shift = 0)

\* C4: with the terminal's size fixed, after any keys 1 <= crsr_y <=
\* term_rows and the first visible line cur_line - crsr_y + 1 lies in
\* 1..line_count, and no key takes update_status or redraw_screen to its
\* abort branch.
C4_ViewportInRange ==
    /\ Waiting => /\ 1 <= crsr_y /\ crsr_y <= term_rows
                  /\ 1 <= cur_line - crsr_y + 1
                  /\ cur_line - crsr_y + 1 <= line_count
    /\ key # NUL => halt # "abort"

\* j has scrolled: the cursor is on the bottom row and the first visible line
\* is not line 1
C4_Witness ==
    /\ halt = ""
    /\ key = K_j
    /\ crsr_y = term_rows
    /\ cur_line - crsr_y + 1 > 1

\* C5: whenever the editor waits for a key, 1 <= cur_line <= line_count and
\* cur_line_s is the cur_line-th node from line_head, a live one.
C5_CachedNodeInSync ==
    Waiting => /\ 1 <= cur_line /\ cur_line <= line_count
               /\ cur_line_s # 0
               /\ lines[cur_line_s].live
               /\ cur_line_s = walk_to_line(lines, cur_line, line_head)

\* dd on the last of several lines has moved the cursor up to the new last
\* line, which is not the first
C5_Witness ==
    /\ halt = ""
    /\ key = K_d
    /\ pc = "cmd"
    /\ shown # <<>>
    /\ cur_line = line_count
    /\ cur_line = 2

\* a file with each record's terminator written as one \n: the records end
\* at each \n, or at the end of the file; one trailing \n or \r is taken off
\* each and one \n put in its place
StripOne(r) == IF r # <<>> /\ r[Len(r)] \in {LF, CR}
               THEN SubSeq(r, 1, Len(r) - 1) ELSE r

RECURSIVE Normalised(_)
Normalised(b) ==
    IF b = <<>> THEN <<>>
    ELSE LET nl == {i \in 1..Len(b) : b[i] = LF}
             n  == IF nl = {} THEN Len(b) ELSE Min(nl)
         IN  StripOne(SubSeq(b, 1, n)) \o <<LF>>
                \o Normalised(SubSeq(b, n + 1, Len(b)))

\* C6: for every file, of any number of records of any length, loading it
\* and saving the unmodified buffer gives the file's bytes back, each record
\* terminator written as a single \n.
C6_RoundTrip == pc = "saved" => outfile = Normalised(infile.bytes)

\* what a render call must leave alone
Frame(s) == <<s.lines, s.line_head, s.line_count, s.cur_line, s.cur_line_s,
              s.crsr_x, s.crsr_y, s.line_shift, s.vi_mode>>

C8_VerticalMove ==
    [][(pc = "cmd" /\ key' \in {K_j, K_k} /\ halt' = "")
        => /\ DocOf(lines', line_head') = Doc
           /\ line_count' = line_count
           /\ key' = K_j => cur_line' = Min({cur_line + 1, line_count})
           /\ key' = K_k => cur_line' = Max({cur_line - 1, 1})
           /\ ((key' = K_j /\ cur_line = line_count) \/ (key' = K_k /\ cur_line = 1))
                 => UNCHANGED <<cur_line, cur_line_s, crsr_x, line_shift, crsr_y>>]_vars

\* k was typed on line 1 with the line shifted: the shift is still there
C8_Witness ==
    /\ halt = ""
    /\ key = K_k
    /\ cur_line = 1
    /\ line_shift > 0
    /\ line_count > 1

\* C9: after j or k has moved the cursor to another line whose length is
\* below the column it came with, the column is that line's length, or 1
\* when the length is 0.
C9_ColumnClamped ==
    [][(pc = "cmd" /\ key' \in {K_j, K_k} /\ halt' = "" /\ cur_line' # cur_line
          /\ lines'[cur_line_s'].len < crsr_x)
        => IF lines'[cur_line_s'].len = 0 THEN crsr_x' = 1
           ELSE crsr_x' + line_shift' = lines'[cur_line_s'].len]_vars

\* C10: in Command mode on the byte at index p of a line of length L, x with
\* count N removes the min(N, L - p) bytes from p on and nothing else; on an
\* empty line it removes nothing; line_count stays.
C10_DeleteForward ==
    [][(pc \in {"cmd", "count"} /\ key' = K_x /\ halt' = "")
        => LET N == IF pc = "count" /\ atoi(command) >= 1 THEN atoi(command) ELSE 1
               T == Bytes(lines[cur_line_s])
               L == lines[cur_line_s].len
               p == crsr_x + line_shift - 1
               k == IF L = 0 THEN 0 ELSE Min({N, L - p})
           IN  /\ line_count' = line_count
               /\ Bytes(lines'[cur_line_s']) = SubSeq(T, 1, p) \o SubSeq(T, p + k + 1, L)]_vars

\* C12: in Insert mode at index p = line_shift + crsr_x - 1 of line n with
\* text T, Enter leaves T[0..p) on line n and makes T[p..] the new line
\* n + 1, the other lines keeping text and order and line_count growing by
\* one; the cursor is then on line n + 1, column 1, shift 0.  p ranges over
\* 0..|T|.
C12_EnterSplits ==
    [][(pc = "insert" /\ key' \in {LF, CR} /\ halt' = "")
        => LET n == cur_line
               T == Doc[n]
               p == line_shift + crsr_x - 1
           IN  /\ DocOf(lines', line_head')
                     = SubSeq(Doc, 1, n - 1)
                       \o <<SubSeq(T, 1, p), SubSeq(T, p + 1, Len(T))>>
                       \o SubSeq(Doc, n + 1, Len(Doc))
               /\ line_count' = line_count + 1
               /\ cur_line' = n + 1
               /\ cur_line_s' = walk_to_line(lines', n + 1, line_head')
               /\ crsr_x' = 1
               /\ line_shift' = 0]_vars

\* Enter has split a line between two of its bytes
C12_Witness ==
    /\ halt = ""
    /\ key = LF
    /\ pc = "insert"
    /\ cur_line >= 2
    /\ Doc[cur_line - 1] # <<>>
    /\ Doc[cur_line] # <<>>

\* C13: dd with count N on line L of M lines removes the lines
\* L..min(L + N - 1, M) and no others, the rest keeping text and order; the
\* line count becomes M - min(N, M - L + 1), and one empty line when that
\* would be 0.
C13_DeleteLines ==
    [][(pc = "d" /\ key' = K_d /\ halt' = "")
        => LET L == cur_line
               M == line_count
               K == Min({num_times, M - L + 1})
           IN  IF K = M
               THEN /\ line_count' = 1
                    /\ DocOf(lines', line_head') = << <<>> >>
               ELSE /\ line_count' = M - K
                    /\ DocOf(lines', line_head')
                          = SubSeq(Doc, 1, L - 1) \o SubSeq(Doc, L + K, M)]_vars

\* dd with count 2 has removed two lines of a buffer typed in by hand and
\* left the one behind them, which holds text
C13_Witness ==
    /\ halt = ""
    /\ key = K_d
    /\ pc = "cmd"
    /\ line_count = 1
    /\ infile.kind = "none"
    /\ Doc[1] # <<>>
    /\ shown # <<>>
    /\ shown[1] = "Deleted %d lines at %d"
    /\ shown[2] = 2

\* C14: after a dd with count N that removed or emptied at least one line
\* the status message is "Deleted K lines at C", K the number of lines the
\* command removed and C the resulting current line.  When the command
\* reaches the only line left, that line counts if it held text.
C14_DeletedMessage ==
    [][(pc = "d" /\ key' = K_d /\ halt' = ""
          /\ DocOf(lines', line_head') # Doc)
        => LET M == line_count
               K == Min({num_times, M - cur_line + 1})
               removed == IF K = M
                          THEN (M - 1) + (IF Doc[M] # <<>> THEN 1 ELSE 0)
                          ELSE K
           IN  shown' = <<"Deleted %d lines at %d", removed, cur_line'>>]_vars

\* the logical cursor index
Index == line_shift + crsr_x - 1

\* C11: from Command mode at index p of a line with text T, i followed by
\* k >= 1 printable bytes s and Escape gives T[0..p) + s + T[p..], k bytes
\* longer, in Command mode with the cursor on the last byte typed, for any
\* k.  Step by step: i keeps text and index; each printable byte is accepted
\* and goes in at the index, which moves on by one, the column then being
\* above 1; Escape typed with the column above 1 keeps the text and steps
\* the index back by one.
C11_InsertSplices ==
    /\ [][(pc = "cmd" /\ key' = K_i)
            => /\ halt' = ""
               /\ DocOf(lines', line_head') = Doc
               /\ vi_mode' = MODE_INSERT
               /\ Index' = Index]_vars
    /\ [][(pc = "insert" /\ key' >= 32 /\ key' < DEL)
            => /\ halt' = ""
               /\ DocOf(lines', line_head')
                     = [Doc EXCEPT ![cur_line] =
                           SubSeq(@, 1, Index) \o <<key'>> \o SubSeq(@, Index + 1, Len(@))]
               /\ cur_line' = cur_line
               /\ vi_mode' = MODE_INSERT
               /\ Index' = Index + 1
               /\ crsr_x' > 1]_vars
    /\ [][(pc = "insert" /\ crsr_x > 1 /\ key' = ESC)
            => /\ halt' = ""
               /\ DocOf(lines', line_head') = Doc
               /\ vi_mode' = MODE_COMMAND
               /\ pc' = "cmd"
               /\ Index' = Index - 1]_vars

\* the line of the colon command is entered
Entered == pc = "colon" /\ key' \in {LF, CR}

\* the cursor's line, column and shift
Cursor == <<cur_line, crsr_x, line_shift>>

\* nothing is written to any file
NoWrite == outname' = outname /\ outfile' = outfile

\* C15 as stated: :wq with no file name stays in the editor in Command mode,
\* with the buffer as it was, nothing written, and the status message
\* "cannot save: no file name specified".
C15_WqNoNameLowercase ==
    [][(Entered /\ cmdline = <<K_w, K_q>> /\ curfile = <<>>)
        => /\ halt' = ""
           /\ pc' = "cmd"
           /\ vi_mode' = MODE_COMMAND
           /\ DocOf(lines', line_head') = Doc
           /\ NoWrite
           /\ shown' = <<"cannot save: no file name specified">>]_vars

\* C15, amended: :wq with no file name stays in the editor in Command mode,
\* with the buffer as it was, nothing written, and the status message
\* "Cannot save: no file name specified".
C15_WqNoName ==
    [][(Entered /\ cmdline = <<K_w, K_q>> /\ curfile = <<>>)
        => /\ halt' = ""
           /\ pc' = "cmd"
           /\ vi_mode' = MODE_COMMAND
           /\ DocOf(lines', line_head') = Doc
           /\ NoWrite
           /\ shown' = <<"Cannot save: no file name specified">>]_vars

\* :wq was entered on a buffer with text and no file name
C15_Witness ==
    /\ pc = "cmd"
    /\ key = LF
    /\ cmdline = <<K_w, K_q>>
    /\ curfile = <<>>
    /\ Doc = << <<122, 122>> >>
    /\ shown = <<"Cannot save: no file name specified">>

\* the lines the colon command is said to know: q, q!, w, wq, and w or wq
\* followed by a space and a name
Known(l) ==
    \/ l \in {<<K_q>>, <<K_q, K_bang>>, <<K_w>>, <<K_w, K_q>>}
    \/ Len(l) >= 3 /\ l[1] = K_w /\ l[2] = SPACE
    \/ Len(l) >= 4 /\ l[1] = K_w /\ l[2] = K_q /\ l[3] = SPACE

\* C16: a colon line that is none of the known ones (foo, wx, wqx, qq) sets
\* a status message, writes no file, does not end the process, leaves the
\* buffer as it was and returns to Command mode.
C16_UnknownColonLine ==
    [][(Entered /\ cmdline # <<>> /\ ~Known(cmdline))
        => /\ halt' = ""
           /\ pc' = "cmd"
           /\ vi_mode' = MODE_COMMAND
           /\ DocOf(lines', line_head') = Doc
           /\ NoWrite
           /\ shown' # <<>>]_vars

\* the save that a colon line started did not report an error
SaveWentWell == /\ halt' = ""
                /\ shown' # <<"Error while saving file">>

\* C17: w followed by a space and a name F of one or more bytes writes the
\* buffer to the file F; w alone, with a current file, writes the buffer to
\* the current file.  Both are stated of the saves that report no error.
C17_WriteNamed ==
    /\ [][(Entered /\ Len(cmdline) >= 3 /\ cmdline[1] = K_w /\ cmdline[2] = SPACE
              /\ SaveWentWell)
            => /\ outname' = SubSeq(cmdline, 3, Len(cmdline))
               /\ outfile' = save_loop(lines, line_head)]_vars
    /\ [][(Entered /\ cmdline = <<K_w>> /\ curfile # <<>> /\ SaveWentWell)
            => /\ outname' = curfile
               /\ outfile' = save_loop(lines, line_head)]_vars

\* the buffer was not written by the step: a save that was started failed
NotWritten == ~(outname' # <<>> /\ outfile' = save_loop(lines, line_head))

\* C18: a save started by w, w <name>, wq or wq <name> that fails leaves the
\* process alive, the buffer and the cursor as they were, and a status
\* message.  A wq that fails is one after which the process has not exited,
\* a w that fails is one after which the buffer has not been written.
C18_FailedSave ==
    [][(Entered /\ Known(cmdline) /\ cmdline[1] = K_w
          /\ IF Len(cmdline) >= 2 /\ cmdline[2] = K_q
             THEN halt' # "exit" ELSE NotWritten)
        => /\ halt' = ""
           /\ DocOf(lines', line_head') = Doc
           /\ Cursor' = Cursor
           /\ shown' # <<>>]_vars

\* the records of a file: what ends at each \n, and what follows the last
\* one if anything does, each without its terminator
RECURSIVE Records(_)
Records(b) ==
    IF b = <<>> THEN <<>>
    ELSE LET nl == {i \in 1..Len(b) : b[i] = LF}
             n  == IF nl = {} THEN Len(b) ELSE Min(nl)
         IN  <<StripOne(SubSeq(b, 1, n))>> \o Records(SubSeq(b, n + 1, Len(b)))

\* no key has been read yet
Started == key = NUL

\* C19: however the editor was started it waits in Command mode with the
\* cursor at line 1, column 1, shift 0: with no argument, on one empty line
\* and no file name; with a file that cannot be opened, on one empty line,
\* the name kept and the new-file status; with a readable file of R >= 0
\* records, on the records in file order with the status reporting R lines.
C19_Startup ==
    Started =>
        /\ halt = ""
        /\ pc = "cmd"
        /\ vi_mode = MODE_COMMAND
        /\ Cursor = <<1, 1, 0>>
        /\ infile.kind = "none" => Doc = << <<>> >> /\ curfile = <<>>
        /\ infile.kind = "missing" =>
               /\ Doc = << <<>> >>
               /\ curfile = ArgName
               /\ shown = <<"'%s' [NEW FILE]">>
        /\ infile.kind = "file" =>
               /\ Doc = Records(infile.bytes)
               /\ curfile = ArgName
               /\ shown = <<"Read %d lines from '%s'", Len(Records(infile.bytes))>>

\* what a cancelled command must leave as it was
Kept == /\ DocOf(lines', line_head') = Doc
        /\ line_count' = line_count
        /\ Cursor' = Cursor
        /\ vi_mode' = vi_mode
        /\ halt' = ""

\* C20: Escape typed after count digits, after d, or while a colon line is
\* being entered cancels the command: text, line count, cursor line, column
\* and shift and the mode are as before the command's first key, and the
\* editor waits in Command mode.  Step by step: each key of the command that
\* leaves it in progress (a digit, d, the colon, a byte of the colon line)
\* keeps them, and so does the Escape, after which the editor waits in
\* Command mode.
C20_EscapeCancels ==
    /\ [][(pc \in {"cmd", "count", "colon"} /\ pc' \in {"count", "d", "colon"})
            => Kept]_vars
    /\ [][(pc \in {"count", "d", "colon"} /\ key' = ESC)
            => Kept /\ pc' = "cmd" /\ vi_mode' = MODE_COMMAND /\ NoWrite]_vars

\* a colon line is being entered, with two bytes typed, the cursor in the
\* second column of a line that was typed; Escape is among the bytes the
\* next read delivers
C20_Witness ==
    /\ pc = "colon"
    /\ Followed
    /\ cmdline = <<K_w, K_q>>
    /\ ESC \in ColonKeys
    /\ Doc = << <<122, 122>> >>
    /\ Cursor = <<1, 2, 0>>

\* what a rejected input must leave as it was
View == <<Doc, line_count, cur_line, crsr_x, line_shift, crsr_y, vi_mode>>

\* the byte read is the command letter of do_cmd
Letter == pc \in {"cmd", "count"}

\* the key typed is rejected: an unknown command key, d followed by another
\* key than d, a byte that is not printable in Insert mode, a move past an
\* edge of the document, or a delete where nothing can be deleted
Rejected ==
    \/ Letter /\ key' = 122
    \/ pc = "d" /\ key' # K_d
    \/ pc = "insert" /\ key' # NUL /\ key' < 32 /\ key' \notin {BS, LF, CR, ESC}
    \/ Letter /\ key' = K_k /\ cur_line = 1
    \/ Letter /\ key' = K_j /\ cur_line = line_count
    \/ Letter /\ key' = K_h /\ Index = 0
    \/ Letter /\ key' = K_l /\ Index + 1 >= lines[cur_line_s].len
    \/ Letter /\ key' = K_x /\ lines[cur_line_s].len = 0
    \/ pc = "d" /\ key' = K_d /\ Doc = << <<>> >>

\* C21: a rejected input leaves document text, line count, cur_line, crsr_x,
\* line_shift, crsr_y and the mode all unchanged.
C21_RejectedInputKeepsState ==
    [][Rejected => (halt' = "" /\ View' = View)]_vars

\* the key typed is a user's error: an unknown command key, a colon line
\* that is none of the known ones, dd on the only, already empty line, k on
\* line 1 or j on the last line
UserError ==
    \/ Letter /\ key' = 122
    \/ Entered /\ cmdline # <<>> /\ ~Known(cmdline)
    \/ pc = "d" /\ key' = K_d /\ Doc = << <<>> >>
    \/ Letter /\ key' = K_k /\ cur_line = 1
    \/ Letter /\ key' = K_j /\ cur_line = line_count

\* C22: a user's input error does not end the process and gives a status
\* message that is not empty, shown by the status refresh that ends the
\* command and cleared by it.
C22_ErrorsAreReported ==
    [][UserError => (halt' = "" /\ shown' # <<>> /\ custom_status' = <<>>)]_vars

\* one press of a movement key
Press(s, c) ==
    IF c = K_h THEN do_cursor_left(s)
    ELSE IF c = K_j THEN do_cursor_down(s)
    ELSE IF c = K_k THEN do_cursor_up(s)
    ELSE do_cursor_right(s)

\* n successive presses
RECURSIVE Presses(_, _, _)
Presses(s, c, n) == IF n = 0 THEN s ELSE Presses(Press(s, c), c, n - 1)

\* where the cursor of s is
Where(s) == <<s.cur_line, s.crsr_x, s.line_shift>>

\* the count typed so far, 1 when there is none
Count == IF pc = "count" /\ atoi(command) >= 1 THEN atoi(command) ELSE 1

\* C23: h, j, k or l typed after a count N leaves the cursor where N
\* successive presses would put it, and where one press puts it when no
\* count was typed.
C23_CountedMove ==
    [][(Letter /\ key' \in {K_h, K_j, K_k, K_l} /\ halt' = "")
        => Cursor' = Where(Presses(St, key', Count))]_vars

\* C24: the mode starts as Command; it becomes Insert only by i, a or o
\* typed as a command letter; in Insert mode every byte but Escape keeps it,
\* and Escape gives Command mode back with the column one lower if it was
\* above 1; whenever the main loop waits for a key the mode is Command.
C24_ModeCycle ==
    /\ [](pc = "cmd" => vi_mode = MODE_COMMAND)
    /\ [][(vi_mode = MODE_COMMAND /\ vi_mode' = MODE_INSERT)
            => (Letter /\ key' \in {K_i, K_a, K_o} /\ pc' \in {"insert", "halted"})]_vars
    /\ [][(pc = "insert" /\ key' # ESC /\ halt' = "")
            => (vi_mode' = MODE_INSERT /\ pc' = "insert")]_vars
    /\ [][(pc = "insert" /\ key' = ESC)
            => /\ halt' = ""
               /\ vi_mode' = MODE_COMMAND
               /\ pc' = "cmd"
               /\ crsr_x' = IF crsr_x > 1 THEN crsr_x - 1 ELSE crsr_x
               /\ <<cur_line', line_shift'>> = <<cur_line, line_shift>>
               /\ DocOf(lines', line_head') = Doc]_vars

\* Escape has ended Insert mode behind the second byte typed on the second
\* line: the cursor is on that byte, in Command mode
C24_Witness ==
    /\ pc = "cmd"
    /\ key = ESC
    /\ vi_mode = MODE_COMMAND
    /\ Doc = << <<>>, <<122, 122>> >>
    /\ Cursor = <<2, 2, 0>>

\* C25: on a line that is not empty, a moves the cursor on by one logical
\* position and enters Insert mode with the text untouched, wherever the
\* cursor is, the last byte of the line and the last column of the terminal
\* included; the first byte typed then goes in at the cursor, hence right
\* behind the byte the cursor was on.
C25_AppendAdvances ==
    /\ [][(Letter /\ key' = K_a /\ lines[cur_line_s].len > 0 /\ halt' = "")
            => /\ Index' = Index + 1
               /\ cur_line' = cur_line
               /\ vi_mode' = MODE_INSERT
               /\ DocOf(lines', line_head') = Doc]_vars
    /\ [][(pc = "insert" /\ key = K_a /\ key' >= 32 /\ key' < DEL /\ halt' = "")
            => DocOf(lines', line_head')
                 = [Doc EXCEPT ![cur_line] =
                       SubSeq(@, 1, Index) \o <<key'>> \o SubSeq(@, Index + 1, Len(@))]]_vars

\* the process has ended through clean_abort or end_vi
Exited == halt \in {"abort", "exit"}

\* C26: when the process ends after the terminal was put into raw mode the
\* terminal settings are restored, no line is left allocated and no node has
\* been freed twice; a colon command ends it with success and anything else
\* with failure; and but for the node an allocation that failed left behind,
\* the nodes freed are the lines of the document.
C26_CleanExit ==
    /\ []((Exited /\ tty # "cooked")
            => /\ tty = "restored"
               /\ frees.again = 0
               /\ \A n \in Nodes : ~lines[n].live)
    /\ [][(halt = "" /\ halt' \notin {"", "ub"})
            => halt' = IF Entered THEN "exit" ELSE "abort"]_vars
    /\ [][(halt = "" /\ Exited' /\ shown' # <<"out of memory">>)
            => frees'.nodes = Len(Reach(lines, line_head))]_vars

\* :wq has saved a buffer of two lines and ended the process
C26_Witness ==
    /\ halt = "exit"
    /\ tty = "restored"
    /\ frees = [nodes |-> 2, again |-> 0]
    /\ cmdline = <<K_w, K_q>>
    /\ outname = ArgName

\* C27: from every state in which the editor waits for a key, the handler of
\* a resize to any size leaves 1 <= crsr_y <= term_rows and
\* 1 <= crsr_x <= term_cols, draws the whole screen and does not end the
\* process.
C27_ResizeKeepsCursor ==
    (pc \in {"cmd", "insert"} /\ Followed)
        => \A ws_row \in WinRows, ws_col \in WinCols :
              \E s \in {sigwinch_handler(St, ws_row, ws_col)} :
                  /\ s.halt = ""
                  /\ s.fault = ""
                  /\ 1 <= s.crsr_y /\ s.crsr_y <= s.term_rows
                  /\ 1 <= s.crsr_x /\ s.crsr_x <= s.term_cols

\* C28: the visible column stays within 1..term_cols while the editor runs;
\* l in the last column with a byte to its right, and a character typed in
\* Insert mode in the last column, add one to line_shift and leave crsr_x;
\* h in column 1 with line_shift > 0 takes one from line_shift and leaves
\* crsr_x.
C28_ColumnInWindow ==
    /\ [](halt = "" => (1 <= crsr_x /\ crsr_x <= term_cols))
    /\ [][(/\ Letter /\ key' = K_l /\ halt' = ""
           /\ crsr_x = term_cols
           /\ line_shift + crsr_x < lines[cur_line_s].len)
            => (line_shift' = line_shift + 1 /\ crsr_x' = crsr_x)]_vars
    /\ [][(/\ pc = "insert" /\ key' >= SPACE /\ key' < DEL /\ halt' = ""
           /\ crsr_x = term_cols)
            => (line_shift' = line_shift + 1 /\ crsr_x' = crsr_x)]_vars
    /\ [][(/\ Letter /\ key' = K_h /\ halt' = ""
           /\ crsr_x = 1 /\ line_shift > 0)
            => (line_shift' = line_shift - 1 /\ crsr_x' = crsr_x)]_vars

\* j or k has moved the cursor to another line, one shorter than the shift
MovedToShorter ==
    /\ Letter
    /\ key' \in {K_j, K_k}
    /\ halt' = ""
    /\ cur_line' # cur_line
    /\ lines'[cur_line_s'].len < line_shift

\* C29: when j or k moves the cursor to a different line whose length is less
\* than line_shift, line_shift is 0 afterwards.
C29_ShiftReset == [][MovedToShorter => line_shift' = 0]_vars

\* the document with an empty line put in behind its first n lines
WithLineAfter(n) == SubSeq(Doc, 1, n) \o << <<>> >> \o SubSeq(Doc, n + 1, Len(Doc))

\* C30: alloc_new_line on the document, with room for a node: position 0 on a
\* document that is not empty makes the new line the head and line 1;
\* position n from 1 to the line count puts it right behind line n; a
\* position above the line count inserts nothing.
C30_InsertPosition ==
    (Followed /\ \E n \in Nodes : ~lines[n].live)
        => \A start \in 0..(line_count + 1) :
              \E s \in {alloc_new_line(St, start, NullText, line_head)} :
                 IF start > line_count
                 THEN s.ret = 0 /\ s.lines = lines /\ s.line_count = line_count
                 ELSE /\ s.ret # 0
                      /\ s.line_count = line_count + 1
                      /\ DocOf(s.lines, s.hd) = WithLineAfter(start)
                      /\ Reach(s.lines, s.hd)[start + 1] = s.ret
                      /\ (start = 0 => s.hd = s.ret)

\* C31: line_shift is never negative while the editor runs.
C31_ShiftNonNegative == halt = "" => line_shift >= 0

\* C32: whenever the editor waits for a key, crsr_x is at least 1, and so
\* the index line_shift + crsr_x - 1 of the next insertion or deletion is at
\* least 0.
C32_ColumnAtLeastOne ==
    (halt = "" /\ pc \in {"cmd", "count", "d", "insert"})
        => (crsr_x >= 1 /\ Index >= 0)

\* C33: every line has room for its text and the terminator,
\* len + 1 <= alloc_size, and no handler has written outside a line's
\* buffer.
C33_RoomForTerminator ==
    /\ \A n \in Nodes : lines[n].live => lines[n].len + 1 <= lines[n].alloc_size
    /\ fault # "oob_write"

\* what a resize may not touch: the text, the line count, the current line
\* and the mode
Content == <<Doc, line_count, cur_line, vi_mode>>

\* C34: a resize that arrives while main or edit_mode is blocked in its read
\* changes none of the text, the line count, the current line and the mode,
\* and when its handler is done the editor waits for the next key as before,
\* with no key dispatched.
C34_ResizeOnlyRedraws ==
    /\ [][(pc \in {"cmd", "insert"} /\ pc' \in {"eintr_cmd", "eintr_insert"})
            => Content' = Content]_vars
    /\ [][(pc \in {"eintr_cmd", "eintr_insert"})
            => (Content' = Content
                /\ pc' = (IF pc = "eintr_cmd" THEN "cmd" ELSE "insert"))]_vars

\* line_head is a live node, every node reached from it is live and points
\* back to the one before it, and line_count is their number
Linked ==
    /\ line_head # 0
    /\ lines[line_head].live
    /\ \E ch \in {Reach(lines, line_head)} :
          /\ line_count = Len(ch)
          /\ \A i \in 1..Len(ch) :
                /\ lines[ch[i]].live
                /\ lines[ch[i]].prev = (IF i = 1 THEN 0 ELSE ch[i - 1])

\* C35: wherever the resize handler can start to run, between two keys or
\* inside the deletion of a line, the list is whole: line_head is live, the
\* links are consistent and line_count is the length of the list.
C35_HandlerSeesWholeList ==
    (halt = "" /\ pc \in {"cmd", "insert", "sig_destroy"}) => Linked

\* C36: whenever the status line shows a number, the divisor is at least 1,
\* the number is between 0 and 100, and its text with the percent sign and
\* the terminator fits num.
C36_PercentFits ==
    (halt \in {"", "ub"} /\ Numeric(St))
        => /\ TopLine(St) >= 1
           /\ 0 <= Percent(St) /\ Percent(St) <= 100
           /\ NumBytes(Percent(St)) <= NUM_SIZE

====
